---- MODULE Spec2Model ----
(***************************************************************************)
(* The collection orchestrator of data_collector: CollectorService with    *)
(* its lock marker, retry loop and per-detail isolation, the DiffDetector, *)
(* the OutputWriter and the SnapshotStore, over a shared file system.      *)
(* Each process owns one CollectorService instance and calls               *)
(* run_collection repeatedly; pc is the position inside the call.          *)
(***************************************************************************)
EXTENDS Integers, Sequences, FiniteSets, TLC

\* ---------------------------------------------------------------- bounds
NumUrls == 2          \* distinct detail-page URLs the site can list
NumProcs == 2         \* interleaved invocations in SpecConc
NumDiffUrls == 3      \* distinct URLs of the record sets in SpecDiff
MaxTokens == 3        \* pieces of a text handed to the normalizer

\* ------------------------------------------------------ program constants
max_retries == 3      \* _collect_with_retry(max_retries=3)

Urls == 1..NumUrls
\* The two contents a detail page of the model can show differ in the sex
\* field, as in the update scenario of the diff tests.
Contents == {"male", "female"}
Procs == 1..NumProcs
DiffUrls == 1..NumDiffUrls
\* In SpecDiff the previous records show one content and the current
\* ones any of three: equal, another sex, the images in another order.
PreviousContents == {"male"}
CurrentContents == {"male", "female", "swapped"}

\* str(e) of the exceptions the collaborators raise
NetworkMessages == {"HTTP 500", "timeout"}
ParsingMessage == "no detail links"
OtherMessage == "Test error"
JSONDecodeMessage == "JSONDecodeError"
OutputErrorMessage == "output OSError"
SnapshotErrorMessage == "snapshot OSError"
DeliveryErrorMessage == "webhook HTTPError"

\* ------------------------------------------------------------- data model
\* ------------------------------------------------------------------ text
\* A str the normalizer handles is the sequence of its characters: an ASCII
\* character is itself, any other character is named by its code point.
Whitespace == {" ", "\n", "U+3000"}
Digits == {"0", "1", "2", "3", "4", "5", "6", "7", "8", "9"}

\* str.strip(): the text without its leading and trailing whitespace
strip(s) ==
    LET kept == {i \in DOMAIN s : s[i] \notin Whitespace}
    IN  IF kept = {} THEN <<>>
        ELSE SubSeq(s, CHOOSE i \in kept : \A j \in kept : i <= j,
                       CHOOSE i \in kept : \A j \in kept : j <= i)

\* str.lower(): kana, kanji and symbols have no case
lower(s) ==
    LET uppercase == <<"A", "B", "C", "D", "E", "F", "G", "H", "I", "J", "K", "L", "M",
                       "N", "O", "P", "Q", "R", "S", "T", "U", "V", "W", "X", "Y", "Z">>
        lowercase == <<"a", "b", "c", "d", "e", "f", "g", "h", "i", "j", "k", "l", "m",
                       "n", "o", "p", "q", "r", "s", "t", "u", "v", "w", "x", "y", "z">>
    IN  [i \in DOMAIN s |->
            IF \E k \in DOMAIN uppercase : uppercase[k] = s[i]
            THEN lowercase[CHOOSE k \in DOMAIN uppercase : uppercase[k] = s[i]]
            ELSE s[i]]

\* pattern in s
Contains(pattern, s) ==
    \E i \in 1..(Len(s) - Len(pattern) + 1) :
        SubSeq(s, i, i + Len(pattern) - 1) = pattern

\* s.replace(ch, "")
Remove(s, ch) ==
    LET Keep(c) == c # ch IN SelectSeq(s, Keep)

\* re.sub(r'\D', '', s)
DigitsOf(s) ==
    LET IsDigit(c) == c \in Digits IN SelectSeq(s, IsDigit)

\* The values of the species field: inu (kanji), neko (kanji), sonota
SpeciesDog == <<"U+72AC">>
SpeciesCat == <<"U+732B">>
SpeciesOther == <<"U+305D", "U+306E", "U+4ED6">>
\* The values of the sex field: otokonoko, onnanoko, fumei
SexMale == <<"U+7537", "U+306E", "U+5B50">>
SexFemale == <<"U+5973", "U+306E", "U+5B50">>
SexUnknown == <<"U+4E0D", "U+660E">>

\* inu in kanji, hiragana and katakana, "inu", "dog"
SPECIES_DOG_PATTERNS ==
    << <<"U+72AC">>, <<"U+3044", "U+306C">>, <<"U+30A4", "U+30CC">>,
       <<"i", "n", "u">>, <<"d", "o", "g">> >>
\* neko in kanji, hiragana and katakana, "neko", "cat"
SPECIES_CAT_PATTERNS ==
    << <<"U+732B">>, <<"U+306D", "U+3053">>, <<"U+30CD", "U+30B3">>,
       <<"n", "e", "k", "o">>, <<"c", "a", "t">> >>
\* otokonoko in kanji and katakana, osu in katakana, hiragana and kanji,
\* the male sign, "male"
SEX_MALE_PATTERNS ==
    << <<"U+7537", "U+306E", "U+5B50">>,
       <<"U+30AA", "U+30C8", "U+30B3", "U+30CE", "U+30B3">>,
       <<"U+30AA", "U+30B9">>, <<"U+304A", "U+3059">>, <<"U+96C4">>,
       <<"U+2642">>, <<"m", "a", "l", "e">> >>
\* onnanoko in kanji and katakana, mesu in katakana, hiragana and kanji,
\* the female sign, "female"
SEX_FEMALE_PATTERNS ==
    << <<"U+5973", "U+306E", "U+5B50">>,
       <<"U+30AA", "U+30F3", "U+30CA", "U+30CE", "U+30B3">>,
       <<"U+30E1", "U+30B9">>, <<"U+3081", "U+3059">>, <<"U+96CC">>,
       <<"U+2640">>, <<"f", "e", "m", "a", "l", "e">> >>

\* any(pattern.lower() in text for pattern in patterns)
AnyPatternIn(patterns, text) ==
    \E k \in DOMAIN patterns : Contains(lower(patterns[k]), text)

\* A species normalizer that hands an unrecognized text through
normalize_species_PassThrough(raw_species) ==
    LET species_lower == strip(lower(raw_species))
    IN  IF AnyPatternIn(SPECIES_DOG_PATTERNS, species_lower) THEN SpeciesDog
        ELSE IF AnyPatternIn(SPECIES_CAT_PATTERNS, species_lower) THEN SpeciesCat
        ELSE species_lower

\* DataNormalizer._normalize_species: the dog patterns are tried first
normalize_species(raw_species) ==
    LET species_lower == strip(lower(raw_species))
    IN  IF AnyPatternIn(SPECIES_DOG_PATTERNS, species_lower) THEN SpeciesDog
        ELSE IF AnyPatternIn(SPECIES_CAT_PATTERNS, species_lower) THEN SpeciesCat
        ELSE SpeciesOther

\* A sex normalizer that tries the male patterns first
normalize_sex_MaleFirst(raw_sex) ==
    LET sex_lower == strip(lower(raw_sex))
    IN  IF AnyPatternIn(SEX_MALE_PATTERNS, sex_lower) THEN SexMale
        ELSE IF AnyPatternIn(SEX_FEMALE_PATTERNS, sex_lower) THEN SexFemale
        ELSE SexUnknown

\* DataNormalizer._normalize_sex: the female patterns are tried first,
\* "female" containing "male"
normalize_sex(raw_sex) ==
    LET sex_lower == strip(lower(raw_sex))
    IN  IF AnyPatternIn(SEX_FEMALE_PATTERNS, sex_lower) THEN SexFemale
        ELSE IF AnyPatternIn(SEX_MALE_PATTERNS, sex_lower) THEN SexMale
        ELSE SexUnknown

\* DataNormalizer._normalize_phone: d(a, b) is the slice digits[a:b]
normalize_phone(raw_phone) ==
    LET phone_str == Remove(Remove(strip(raw_phone), "("), ")")
        digits == DigitsOf(phone_str)
        d(a, b) == SubSeq(digits, a + 1, b)
    IN  IF Len(digits) = 10
        THEN IF d(0, 2) \in {<<"0", "3">>, <<"0", "4">>, <<"0", "5">>, <<"0", "6">>}
             THEN d(0, 2) \o <<"-">> \o d(2, 6) \o <<"-">> \o d(6, 10)
             ELSE d(0, 3) \o <<"-">> \o d(3, 6) \o <<"-">> \o d(6, 10)
        ELSE IF Len(digits) = 11
        THEN d(0, 3) \o <<"-">> \o d(3, 7) \o <<"-">> \o d(7, 11)
        ELSE IF digits # <<>> THEN digits ELSE phone_str

\* What a call of the normalizer or of a constructor does: it returns a
\* value or raises an exception
Returns(v) == [raised |-> FALSE, value |-> v]
Raises(name) == [raised |-> TRUE, value |-> name]

\* ------------------------------------------------------ regular expressions
\* A pattern is a sequence of items: min to max characters of chars (max -1:
\* no upper limit), captured as a group or not.
Item(chars, min, max, group) == [chars |-> chars, min |-> min, max |-> max, group |-> group]
Lit(ch) == Item({ch}, 1, 1, FALSE)
\* (\d+), (\d{a,b})
DigitGroup(min, max) == Item(Digits, min, max, TRUE)

\* The numbers of characters the item can take at position pos of s
Lengths(it, s, pos) ==
    LET left == Len(s) - pos + 1
        hi == IF it.max = -1 \/ it.max > left THEN left ELSE it.max
    IN  {n \in it.min..hi : \A i \in pos..(pos + n - 1) : s[i] \in it.chars}

\* The items match at position pos of s; to_end is the $ that ends the
\* pattern
RECURSIVE Matches(_, _, _, _)
Matches(items, s, pos, to_end) ==
    IF items = <<>> THEN ~to_end \/ pos = Len(s) + 1
    ELSE \E n \in Lengths(Head(items), s, pos) :
             Matches(Tail(items), s, pos + n, to_end)

\* The groups of the match: every item takes as many characters as the
\* rest of the pattern allows
RECURSIVE Groups(_, _, _, _)
Groups(items, s, pos, to_end) ==
    IF items = <<>> THEN <<>>
    ELSE LET it == Head(items)
             ok == {n \in Lengths(it, s, pos) : Matches(Tail(items), s, pos + n, to_end)}
             n == CHOOSE m \in ok : \A k \in ok : k <= m
         IN  (IF it.group THEN <<SubSeq(s, pos, pos + n - 1)>> ELSE <<>>)
             \o Groups(Tail(items), s, pos + n, to_end)

\* re.search(pattern, s): the leftmost match, <<>> when there is none and
\* <<its groups>> otherwise
search(items, s) ==
    LET starts == {i \in 1..(Len(s) + 1) : Matches(items, s, i, FALSE)}
    IN  IF starts = {} THEN <<>>
        ELSE <<Groups(items, s, CHOOSE i \in starts : \A j \in starts : i <= j, FALSE)>>

\* re.match(r'^...$', s) on a text that ends with no newline
match(items, s) ==
    IF Matches(items, s, 1, TRUE) THEN <<Groups(items, s, 1, TRUE)>> ELSE <<>>

\* int(text) of a text of digits
DigitChars == <<"0", "1", "2", "3", "4", "5", "6", "7", "8", "9">>
RECURSIVE int(_)
int(s) ==
    IF s = <<>> THEN 0
    ELSE int(SubSeq(s, 1, Len(s) - 1)) * 10
         + (CHOOSE n \in 0..9 : DigitChars[n + 1] = s[Len(s)])

\* The decimal digits of n, and a text filled with zeros up to width
RECURSIVE Decimal(_)
Decimal(n) ==
    IF n < 10 THEN <<DigitChars[n + 1]>>
    ELSE Decimal(n \div 10) \o <<DigitChars[(n % 10) + 1]>>
ZeroFill(s, width) ==
    [i \in 1..(width - Len(s)) |-> "0"] \o s

\* ------------------------------------------------------------------- dates
\* datetime(year, month, day) raises ValueError unless the date exists,
\* in the years datetime.MINYEAR to datetime.MAXYEAR
IsDate(year, month, day) ==
    LET days_in_month ==
            IF month = 2
            THEN IF (year % 4 = 0 /\ year % 100 # 0) \/ year % 400 = 0 THEN 29 ELSE 28
            ELSE IF month \in {4, 6, 9, 11} THEN 30 ELSE 31
    IN  /\ year \in 1..9999
        /\ month \in 1..12
        /\ day \in 1..days_in_month

\* date.strftime("%Y-%m-%d"): %m and %d have two digits; %Y has the
\* digits the C library gives a year below 1000, four when it pads
strftime(year, month, day, pads_year) ==
    (IF pads_year THEN ZeroFill(Decimal(year), 4) ELSE Decimal(year))
    \o <<"-">> \o ZeroFill(Decimal(month), 2)
    \o <<"-">> \o ZeroFill(Decimal(day), 2)

\* The first year of the era Reiwa is 2019
ReiwaOffset == 2018

\* ^\d{4}-\d{2}-\d{2}$, with its three numbers as groups
IsoPattern ==
    <<DigitGroup(4, 4), Lit("-"), DigitGroup(2, 2), Lit("-"), DigitGroup(2, 2)>>

\* datetime(year, month, day).date().strftime("%Y-%m-%d") of a match
FormatMatch(m, offset, pads_year) ==
    LET year == offset + int(m[1][1])
        month == int(m[1][2])
        day == int(m[1][3])
    IN  IF IsDate(year, month, day)
        THEN Returns(strftime(year, month, day, pads_year))
        ELSE Raises("ValueError")

\* DataNormalizer._normalize_date: an ISO date that exists is returned as
\* it is, the other forms are rebuilt by strftime. pads_year is the C
\* library's way with %Y.
normalize_date(raw_date, pads_year) ==
    LET date_str == strip(raw_date)
        \* reiwa N nen M gatsu D nichi
        reiwa == search(<<Lit("U+4EE4"), Lit("U+548C"), DigitGroup(1, -1), Lit("U+5E74"),
                          DigitGroup(1, -1), Lit("U+6708"), DigitGroup(1, -1),
                          Lit("U+65E5")>>, date_str)
        \* RN.M/D
        reiwa_short == search(<<Lit("R"), DigitGroup(1, 2), Lit("."), DigitGroup(1, 2),
                                Lit("/"), DigitGroup(1, 2)>>, date_str)
        \* YYYY/M/D
        slash == search(<<DigitGroup(4, 4), Lit("/"), DigitGroup(1, 2), Lit("/"),
                          DigitGroup(1, 2)>>, date_str)
        \* YYYY nen M gatsu D nichi
        kanji == search(<<DigitGroup(4, 4), Lit("U+5E74"), DigitGroup(1, 2), Lit("U+6708"),
                          DigitGroup(1, 2), Lit("U+65E5")>>, date_str)
    IN  IF date_str = <<>> THEN Raises("ValueError")
        ELSE IF match(IsoPattern, date_str) # <<>>
        THEN IF IsDate(int(SubSeq(date_str, 1, 4)), int(SubSeq(date_str, 6, 7)),
                       int(SubSeq(date_str, 9, 10)))
             THEN Returns(date_str) ELSE Raises("ValueError")
        ELSE IF reiwa # <<>> THEN FormatMatch(reiwa, ReiwaOffset, pads_year)
        ELSE IF reiwa_short # <<>> THEN FormatMatch(reiwa_short, ReiwaOffset, pads_year)
        ELSE IF slash # <<>> THEN FormatMatch(slash, 0, pads_year)
        ELSE IF kanji # <<>> THEN FormatMatch(kanji, 0, pads_year)
        ELSE Raises("ValueError")

\* --------------------------------------------------------------------- age
\* The texts that stand for an unknown value: fumei, "?", the full-width
\* question mark, "unknown", ""
UNKNOWN_PATTERNS ==
    { <<"U+4E0D", "U+660E">>, <<"?">>, <<"U+FF1F">>,
      <<"u", "n", "k", "n", "o", "w", "n">>, <<>> }

\* An Optional[int] is None or <<the integer>>
None == <<>>

\* DataNormalizer._normalize_age: months, or None
normalize_age(raw_age) ==
    LET age_str == strip(raw_age)
        spaces == Item(Whitespace, 0, -1, FALSE)
        \* N sai
        years_old == search(<<DigitGroup(1, -1), spaces, Lit("U+6B73")>>, age_str)
        \* N kagetsu, in the four spellings of ka
        months == search(<<DigitGroup(1, -1), spaces,
                           Item({"U+30F6", "U+304B", "U+30AB", "U+30B1"}, 1, 1, FALSE),
                           Lit("U+6708")>>, age_str)
        \* N nen
        years == search(<<DigitGroup(1, -1), spaces, Lit("U+5E74")>>, age_str)
    IN  IF age_str \in UNKNOWN_PATTERNS THEN None
        ELSE IF years_old # <<>> THEN <<int(years_old[1][1]) * 12>>
        ELSE IF months # <<>> THEN <<int(months[1][1])>>
        ELSE IF years # <<>> THEN <<int(years[1][1]) * 12>>
        ELSE None

\* pydantic HttpUrl built from the string s, and str() of it
HttpUrl(s) == [href |-> s]
str(url) == url.href

\* datetime.date values of the model with their ISO 8601 form
Dates == {<<2026, 1, 5>>}
isoformat(d) == CASE d = <<2026, 1, 5>> -> "2026-01-05"
fromisoformat(t) == CHOOSE d \in Dates : isoformat(d) = t

\* AnimalData as normalize() builds it for the page at URL u showing
\* content c: the page shows one of two sexes, or its two images in the
\* other order.
AnimalData(u, c) ==
    [ species      |-> SpeciesDog,
      shelter_date |-> <<2026, 1, 5>>,
      source_url   |-> HttpUrl(u),
      sex          |-> IF c = "female" THEN SexFemale ELSE SexMale,
      age_months   |-> <<24>>,
      color        |-> "brown",
      size         |-> "medium",
      location     |-> "center",
      phone        |-> "088-123-4567",
      image_urls   |-> IF c = "swapped"
                       THEN <<HttpUrl("b.jpg"), HttpUrl("a.jpg")>>
                       ELSE <<HttpUrl("a.jpg"), HttpUrl("b.jpg")>> ]

\* animal.model_dump(mode="json"): the date and the URLs become strings
model_dump(animal) ==
    [animal EXCEPT !.shelter_date = isoformat(@),
                   !.source_url = str(@),
                   !.image_urls = [i \in DOMAIN @ |-> str(@[i])]]

\* AnimalData(**item) on an item of a JSON document: the strings are
\* parsed back into a date and URLs
AnimalDataFromItem(item) ==
    [item EXCEPT !.shelter_date = fromisoformat(@),
                 !.source_url = HttpUrl(@),
                 !.image_urls = [i \in DOMAIN @ |-> HttpUrl(@[i])]]

\* A species validator that coerces an unknown value to sonota
validate_species_Coerces(v) ==
    IF v \in {SpeciesDog, SpeciesCat, SpeciesOther} THEN Returns(v) ELSE Returns(SpeciesOther)

\* The field validators of AnimalData: the value, or ValueError
validate_species(v) ==
    IF v \notin {SpeciesDog, SpeciesCat, SpeciesOther} THEN Raises("ValueError") ELSE Returns(v)
validate_sex(v) ==
    IF v \notin {SexMale, SexFemale, SexUnknown} THEN Raises("ValueError") ELSE Returns(v)
validate_age_months(v) ==
    IF v # None /\ v[1] < 0 THEN Raises("ValueError") ELSE Returns(v)

\* AnimalData(**fields): pydantic raises ValidationError when a field
\* validator raises, and builds the record with the validators' values
\* otherwise
AnimalDataInit(fields) ==
    LET species == validate_species(fields.species)
        sex == validate_sex(fields.sex)
        age_months == validate_age_months(fields.age_months)
    IN  IF species.raised \/ sex.raised \/ age_months.raised
        THEN Raises("ValidationError")
        ELSE Returns([fields EXCEPT !.species = species.value,
                                    !.sex = sex.value,
                                    !.age_months = age_months.value])

\* datetime.strptime(text, "%Y-%m-%d").date(): %Y takes four digits, %m
\* and %d one or two
strptime(text) ==
    LET m == match(<<DigitGroup(4, 4), Lit("-"), DigitGroup(1, 2), Lit("-"),
                     DigitGroup(1, 2)>>, text)
    IN  IF m # <<>> /\ IsDate(int(m[1][1]), int(m[1][2]), int(m[1][3]))
        THEN Returns(<<int(m[1][1]), int(m[1][2]), int(m[1][3])>>)
        ELSE Raises("ValueError")

\* DataNormalizer.normalize: color, size and location are not empty on the
\* pages of the model
normalize(raw_data, pads_year) ==
    LET date_str == normalize_date(raw_data.shelter_date, pads_year)
        shelter_date == IF date_str.raised THEN date_str ELSE strptime(date_str.value)
    IN  IF shelter_date.raised THEN Raises("ValueError")
        ELSE AnimalDataInit(
                 [ species      |-> normalize_species(raw_data.species),
                   sex          |-> normalize_sex(raw_data.sex),
                   age_months   |-> normalize_age(raw_data.age),
                   color        |-> raw_data.color,
                   size         |-> raw_data.size,
                   shelter_date |-> shelter_date.value,
                   location     |-> raw_data.location,
                   phone        |-> normalize_phone(raw_data.phone),
                   image_urls   |-> [i \in DOMAIN raw_data.image_urls |->
                                        HttpUrl(raw_data.image_urls[i])],
                   source_url   |-> HttpUrl(raw_data.source_url) ])

DiffResult(n, u, d) == [new |-> n, updated |-> u, deleted_candidates |-> d]

CollectionResult(ok, total, n, u, d, errs) ==
    [ success         |-> ok,
      total_collected |-> total,
      new_count       |-> n,
      updated_count   |-> u,
      deleted_count   |-> d,
      errors          |-> errs ]

\* CollectionResult(success=False, errors=errs): the counts keep their default 0
FailureResult(errs) == CollectionResult(FALSE, 0, 0, 0, 0, errs)

\* An exception that leaves run_collection instead of a CollectionResult
Raised(name) == [exception |-> name]

\* An exception a collaborator raised, with its str(e)
Exception(type, message) == [type |-> type, message |-> message]

IsResult(r) == "success" \in DOMAIN r

\* ------------------------------------------------------------ file system
\* A file is absent, complete (kind "valid") or truncated: emptied by
\* open(.., "w") and not, or not completely, written by json.dump since.
AbsentFile == [kind |-> "absent"]
TruncatedFile == [kind |-> "truncated"]
SnapshotContent(data) ==
    [kind |-> "valid", animals |-> [i \in DOMAIN data |-> model_dump(data[i])]]
\* Of the output document the model keeps on disk only that it is complete;
\* the document is output_data of the call that wrote it.
CompleteFile == [kind |-> "valid"]

\* output_data of write_output, without the timestamp
OutputData(data, diff) ==
    [ total_count   |-> Len(data),
      new_count     |-> Len(diff.new),
      updated_count |-> Len(diff.updated),
      deleted_count |-> Len(diff.deleted_candidates),
      animals       |-> [i \in DOMAIN data |-> model_dump(data[i])] ]

VARIABLES
    lockFile,            \* LOCK_FILE exists
    snapshotFile,        \* snapshots/latest.json
    outputFile,          \* output/animals.json
    pc,                  \* per process: position in run_collection
    structure_changed,   \* per process: CollectorService._structure_changed
    frame,               \* per process: the locals of the running call
                         \*   (EmptyFrame outside a call)
    result,              \* per process: <<>> or <<what the last call returned>>
    calls,               \* per process: calls the running call made so far
                         \*   (NoCalls once its summary is built and the
                         \*   marker is being released)
    snapAtStart,         \* per process: snapshotFile when the running call
                         \*   started (the current one outside a call)
    exit_status,         \* per process: <<>> or <<the status main() exited with>>
    normalizer_call,     \* the call of DataNormalizer or of the AnimalData
                         \*   constructor under evaluation (NoCall while the
                         \*   collector runs)
    adapter_call         \* the call of KochiAdapter.fetch_animal_list under
                         \*   evaluation (NoCall while the collector runs)

vars == <<lockFile, snapshotFile, outputFile, pc, structure_changed, frame,
          result, calls, snapAtStart, exit_status, normalizer_call, adapter_call>>

\* No call of the normalizer or of the adapter is under evaluation
NoCall == <<>>

\* listing_raised and failed record what the site did to the call: the
\* exception of every listing attempt that raised, and the listed URLs
\* whose extract or normalize step raised. The rest are the locals.
EmptyFrame ==
    [ retry_count    |-> 0,
      last_error     |-> "",
      listing_raised |-> <<>>,
      detail_urls    |-> <<>>,
      failed         |-> {},
      skipped        |-> <<>>,
      collected_data |-> <<>>,
      sleeps         |-> <<>>,
      diff_result    |-> DiffResult(<<>>, <<>>, <<>>),
      output_data    |-> <<>>,
      errors         |-> <<>> ]

\* undelivered counts the send_alert and notify_new_animals calls whose
\* delivery failed inside the client.
NoCalls ==
    [ acquire_lock           |-> 0,
      fetch_animal_list      |-> 0,
      extract_animal_details |-> 0,
      detect_diff            |-> 0,
      send_alert             |-> 0,
      notify_new_animals     |-> 0,
      write_output           |-> 0,
      save_snapshot          |-> 0,
      undelivered            |-> 0 ]

\* ------------------------------------------------------------ pure parts
Range(s) == {s[i] : i \in DOMAIN s}

\* Sequences over S without repetition, of length 1..Cardinality(S):
\* what list(set(all_urls)) can return, in any order.
Listings(S) ==
    { l \in UNION {[1..n -> S] : n \in 1..Cardinality(S)} :
        \A i, j \in DOMAIN l : i # j => l[i] # l[j] }

\* What extract_animal_details + normalize do for one URL: a record, or
\* one of the exceptions the two can raise.
DetailFailures == {"NetworkError", "ParsingError", "ValueError"}
DetailOutcomes(C) ==
    {[kind |-> "ok", content |-> c] : c \in C}
        \cup {[kind |-> k, content |-> ""] : k \in DetailFailures}

\* A detail loop that stops at the first page that raises
RECURSIVE collect_details_Abort(_, _, _)
collect_details_Abort(detail_urls, outcome, i) ==
    IF i > Len(detail_urls)
    THEN [collected_data |-> <<>>, skipped |-> <<>>]
    ELSE IF outcome[i].kind = "ok"
    THEN [collect_details_Abort(detail_urls, outcome, i + 1) EXCEPT
              !.collected_data =
                  <<AnimalData(detail_urls[i], outcome[i].content)>> \o @]
    ELSE [collected_data |-> <<>>, skipped |-> <<detail_urls[i]>>]

\* The detail loop of _collect_with_retry from position i on: a record is
\* appended when extract and normalize return, the URL is logged and
\* skipped on NetworkError and on any other Exception.
RECURSIVE collect_details(_, _, _)
collect_details(detail_urls, outcome, i) ==
    IF i > Len(detail_urls)
    THEN [collected_data |-> <<>>, skipped |-> <<>>]
    ELSE LET rest == collect_details(detail_urls, outcome, i + 1)
             url == detail_urls[i]
         IN  IF outcome[i].kind = "ok"
             THEN [rest EXCEPT !.collected_data =
                       <<AnimalData(url, outcome[i].content)>> \o @]
             ELSE IF outcome[i].kind = "NetworkError"
             THEN [rest EXCEPT !.skipped = <<url>> \o @]
             ELSE [rest EXCEPT !.skipped = <<url>> \o @]

\* A load that takes a file it cannot parse for an empty snapshot
load_snapshot_Lenient(file) ==
    IF file.kind = "valid"
    THEN [raised |-> FALSE,
          data |-> [i \in DOMAIN file.animals |-> AnimalDataFromItem(file.animals[i])]]
    ELSE [raised |-> FALSE, data |-> <<>>]

\* A load without the exists() check: open() raises on an absent file
load_snapshot_NoExistsCheck(file) ==
    IF file.kind = "valid"
    THEN [raised |-> FALSE,
          data |-> [i \in DOMAIN file.animals |-> AnimalDataFromItem(file.animals[i])]]
    ELSE [raised |-> TRUE, data |-> <<>>]

\* SnapshotStore.load_snapshot: [] when the file is absent, the records
\* when it parses, JSONDecodeError on a truncated file.
load_snapshot(file) ==
    IF file.kind = "absent" THEN [raised |-> FALSE, data |-> <<>>]
    ELSE IF file.kind = "valid"
    THEN [raised |-> FALSE,
          data |-> [i \in DOMAIN file.animals |-> AnimalDataFromItem(file.animals[i])]]
    ELSE [raised |-> TRUE, data |-> <<>>]

\* Keys of {str(a.source_url): a for a in animals}, in insertion order
RECURSIVE DictKeys(_)
DictKeys(animals) ==
    IF animals = <<>> THEN <<>>
    ELSE LET init == DictKeys(SubSeq(animals, 1, Len(animals) - 1))
             url == str(animals[Len(animals)].source_url)
         IN  IF url \in Range(init) THEN init ELSE Append(init, url)

\* Value of that dict at url: the last record with the URL
DictGet(animals, url) ==
    LET I == {i \in DOMAIN animals : str(animals[i].source_url) = url}
    IN  animals[CHOOSE i \in I : \A j \in I : j <= i]

\* A comparison that leaves the images out
animals_equal_IgnoresImages(a, b) ==
    /\ a.species = b.species
    /\ a.sex = b.sex
    /\ a.age_months = b.age_months
    /\ a.color = b.color
    /\ a.size = b.size
    /\ a.shelter_date = b.shelter_date
    /\ a.location = b.location
    /\ a.phone = b.phone
    /\ str(a.source_url) = str(b.source_url)

\* DiffDetector._animals_equal
animals_equal(a, b) ==
    /\ a.species = b.species
    /\ a.sex = b.sex
    /\ a.age_months = b.age_months
    /\ a.color = b.color
    /\ a.size = b.size
    /\ a.shelter_date = b.shelter_date
    /\ a.location = b.location
    /\ a.phone = b.phone
    /\ a.image_urls = b.image_urls
    /\ str(a.source_url) = str(b.source_url)

\* A diff that reports every previous URL as a delete candidate
detect_diff_DeletesAll(current_data, previous_data) ==
    LET previous_urls == DictKeys(previous_data)
        current_urls == DictKeys(current_data)
        IsNew(u) == u \notin Range(previous_urls)
        IsUpdated(u) ==
            /\ u \in Range(previous_urls)
            /\ ~animals_equal(DictGet(current_data, u), DictGet(previous_data, u))
        Animals(urls) == [i \in DOMAIN urls |-> DictGet(current_data, urls[i])]
    IN  DiffResult(Animals(SelectSeq(current_urls, IsNew)),
                   Animals(SelectSeq(current_urls, IsUpdated)),
                   previous_urls)

\* A diff that builds the delete candidates by prepending
detect_diff_DeletedReversed(current_data, previous_data) ==
    LET previous_urls == DictKeys(previous_data)
        current_urls == DictKeys(current_data)
        IsNew(u) == u \notin Range(previous_urls)
        IsUpdated(u) ==
            /\ u \in Range(previous_urls)
            /\ ~animals_equal(DictGet(current_data, u), DictGet(previous_data, u))
        IsDeleted(u) == u \notin Range(current_urls)
        Animals(urls) == [i \in DOMAIN urls |-> DictGet(current_data, urls[i])]
    IN  DiffResult(Animals(SelectSeq(current_urls, IsNew)),
                   Animals(SelectSeq(current_urls, IsUpdated)),
                   LET deleted == SelectSeq(previous_urls, IsDeleted)
                   IN  [i \in DOMAIN deleted |-> deleted[Len(deleted) + 1 - i]])

\* A diff that compares each current record with the previous record at
\* the same place
detect_diff_ByPosition(current_data, previous_data) ==
    LET previous_urls == DictKeys(previous_data)
        current_urls == DictKeys(current_data)
        IsNew(u) == u \notin Range(previous_urls)
        IsUpdated(u) ==
            /\ u \in Range(previous_urls)
            /\ LET i == CHOOSE k \in DOMAIN current_urls : current_urls[k] = u
               IN  \/ i > Len(previous_data)
                   \/ ~animals_equal(DictGet(current_data, u), previous_data[i])
        IsDeleted(u) == u \notin Range(current_urls)
        Animals(urls) == [i \in DOMAIN urls |-> DictGet(current_data, urls[i])]
    IN  DiffResult(Animals(SelectSeq(current_urls, IsNew)),
                   Animals(SelectSeq(current_urls, IsUpdated)),
                   SelectSeq(previous_urls, IsDeleted))

\* DiffDetector.detect_diff on the loaded previous_data
detect_diff(current_data, previous_data) ==
    LET previous_urls == DictKeys(previous_data)
        current_urls == DictKeys(current_data)
        IsNew(u) == u \notin Range(previous_urls)
        IsUpdated(u) ==
            /\ u \in Range(previous_urls)
            /\ ~animals_equal(DictGet(current_data, u), DictGet(previous_data, u))
        IsDeleted(u) == u \notin Range(current_urls)
        Animals(urls) == [i \in DOMAIN urls |-> DictGet(current_data, urls[i])]
    IN  DiffResult(Animals(SelectSeq(current_urls, IsNew)),
                   Animals(SelectSeq(current_urls, IsUpdated)),
                   SelectSeq(previous_urls, IsDeleted))

\* ------------------------------------------------------------- handlers
\* A handler that returns its summary without running the finally clause
ExceptException_NoFinally(p, fr, msg) ==
    /\ frame' = [frame EXCEPT ![p] = [fr EXCEPT !.errors = Append(@, msg)]]
    /\ result' = [result EXCEPT ![p] = <<FailureResult(Append(fr.errors, msg))>>]
    /\ pc' = [pc EXCEPT ![p] = "idle"]

\* except Exception (lines 180-188), entered with the locals fr: the
\* message joins errors, the failure summary is the pending return value
\* and the finally clause is next.
ExceptException(p, fr, msg) ==
    /\ frame' = [frame EXCEPT ![p] = [fr EXCEPT !.errors = Append(@, msg)]]
    /\ result' = [result EXCEPT ![p] = <<FailureResult(Append(fr.errors, msg))>>]
    /\ pc' = [pc EXCEPT ![p] = "release"]

\* ------------------------------------------------------------ the actions
\* A marker check whose early return goes through _release_lock
IsRunning_ReleasesMarker(p) ==
    /\ pc[p] = "idle"
    /\ frame' = [frame EXCEPT ![p] = EmptyFrame]
    /\ calls' = [calls EXCEPT ![p] = NoCalls]
    /\ snapAtStart' = [snapAtStart EXCEPT ![p] = snapshotFile]
    /\ IF lockFile
       THEN /\ result' = [result EXCEPT ![p] = <<FailureResult(<<"Already running">>)>>]
            /\ pc' = pc
            /\ lockFile' = FALSE
       ELSE /\ result' = [result EXCEPT ![p] = <<>>]
            /\ pc' = [pc EXCEPT ![p] = "acquire"]
            /\ UNCHANGED lockFile
    /\ UNCHANGED <<snapshotFile, outputFile, structure_changed>>
    /\ UNCHANGED <<exit_status, normalizer_call, adapter_call>>

\* A marker check that takes a marker no call owns for stale and goes on
IsRunning_TakesOverStale(p) ==
    /\ pc[p] = "idle"
    /\ frame' = [frame EXCEPT ![p] = EmptyFrame]
    /\ calls' = [calls EXCEPT ![p] = NoCalls]
    /\ snapAtStart' = [snapAtStart EXCEPT ![p] = snapshotFile]
    /\ result' = [result EXCEPT ![p] = <<>>]
    /\ pc' = [pc EXCEPT ![p] = "acquire"]
    /\ UNCHANGED <<lockFile, snapshotFile, outputFile, structure_changed>>
    /\ UNCHANGED <<exit_status, normalizer_call, adapter_call>>

\* run_collection, lines 92-98: the marker check; with the marker present
\* the call returns at once.
IsRunning(p) ==
    /\ pc[p] = "idle"
    /\ frame' = [frame EXCEPT ![p] = EmptyFrame]
    /\ calls' = [calls EXCEPT ![p] = NoCalls]
    /\ snapAtStart' = [snapAtStart EXCEPT ![p] = snapshotFile]
    /\ IF lockFile
       THEN /\ result' = [result EXCEPT ![p] = <<FailureResult(<<"Already running">>)>>]
            /\ pc' = pc
       ELSE /\ result' = [result EXCEPT ![p] = <<>>]
            /\ pc' = [pc EXCEPT ![p] = "acquire"]
    /\ UNCHANGED <<lockFile, snapshotFile, outputFile, structure_changed>>
    /\ UNCHANGED <<exit_status, normalizer_call, adapter_call>>

\* _acquire_lock, line 100: LOCK_FILE.touch()
AcquireLock(p) ==
    /\ pc[p] = "acquire"
    /\ lockFile' = TRUE
    /\ calls' = [calls EXCEPT ![p].acquire_lock = @ + 1]
    /\ pc' = [pc EXCEPT ![p] = "collect"]
    /\ UNCHANGED <<snapshotFile, outputFile, structure_changed, frame, result,
                   snapAtStart>>
    /\ UNCHANGED <<exit_status, normalizer_call, adapter_call>>

\* A retry loop that goes round once more: retry_count <= max_retries
FetchNetworkError_OffByOne(p) ==
    /\ pc[p] = "collect"
    /\ \E msg \in NetworkMessages :
         LET retry_count == frame[p].retry_count + 1
             counted == [frame[p] EXCEPT
                            !.retry_count = retry_count,
                            !.last_error = msg,
                            !.listing_raised = Append(@, Exception("NetworkError", msg))]
         IN  IF retry_count <= max_retries
             THEN /\ frame' = [frame EXCEPT ![p] =
                         [counted EXCEPT !.sleeps = Append(@, 2 ^ retry_count)]]
                  /\ UNCHANGED <<pc, result>>
             ELSE ExceptException(p, counted, counted.last_error)
    /\ calls' = [calls EXCEPT ![p].fetch_animal_list = @ + 1]
    /\ UNCHANGED <<lockFile, snapshotFile, outputFile, structure_changed,
                   snapAtStart>>
    /\ UNCHANGED <<exit_status, normalizer_call, adapter_call>>

\* A retry loop that keeps the first error it saw in last_error
FetchNetworkError_FirstError(p) ==
    /\ pc[p] = "collect"
    /\ \E msg \in NetworkMessages :
         LET retry_count == frame[p].retry_count + 1
             counted == [frame[p] EXCEPT
                            !.retry_count = retry_count,
                            !.last_error = IF @ = "" THEN msg ELSE @,
                            !.listing_raised = Append(@, Exception("NetworkError", msg))]
         IN  IF retry_count < max_retries
             THEN /\ frame' = [frame EXCEPT ![p] =
                         [counted EXCEPT !.sleeps = Append(@, 2 ^ retry_count)]]
                  /\ UNCHANGED <<pc, result>>
             ELSE ExceptException(p, counted, counted.last_error)
    /\ calls' = [calls EXCEPT ![p].fetch_animal_list = @ + 1]
    /\ UNCHANGED <<lockFile, snapshotFile, outputFile, structure_changed,
                   snapAtStart>>
    /\ UNCHANGED <<exit_status, normalizer_call, adapter_call>>

\* A retry loop that waits the same time after every failure
FetchNetworkError_FixedDelay(p) ==
    /\ pc[p] = "collect"
    /\ \E msg \in NetworkMessages :
         LET retry_count == frame[p].retry_count + 1
             counted == [frame[p] EXCEPT
                            !.retry_count = retry_count,
                            !.last_error = msg,
                            !.listing_raised = Append(@, Exception("NetworkError", msg))]
         IN  IF retry_count < max_retries
             THEN /\ frame' = [frame EXCEPT ![p] =
                         [counted EXCEPT !.sleeps = Append(@, 2)]]
                  /\ UNCHANGED <<pc, result>>
             ELSE ExceptException(p, counted, counted.last_error)
    /\ calls' = [calls EXCEPT ![p].fetch_animal_list = @ + 1]
    /\ UNCHANGED <<lockFile, snapshotFile, outputFile, structure_changed,
                   snapAtStart>>
    /\ UNCHANGED <<exit_status, normalizer_call, adapter_call>>

\* One pass of the retry loop in which fetch_animal_list raises
\* NetworkError (lines 242-263): count it, sleep 2 ** retry_count and go
\* round again, or after max_retries passes raise the last error, which
\* run_collection catches as Exception.
FetchNetworkError(p) ==
    /\ pc[p] = "collect"
    /\ \E msg \in NetworkMessages :
         LET retry_count == frame[p].retry_count + 1
             counted == [frame[p] EXCEPT
                            !.retry_count = retry_count,
                            !.last_error = msg,
                            !.listing_raised = Append(@, Exception("NetworkError", msg))]
         IN  IF retry_count < max_retries
             THEN /\ frame' = [frame EXCEPT ![p] =
                         [counted EXCEPT !.sleeps = Append(@, 2 ^ retry_count)]]
                  /\ UNCHANGED <<pc, result>>
             ELSE ExceptException(p, counted, counted.last_error)
    /\ calls' = [calls EXCEPT ![p].fetch_animal_list = @ + 1]
    /\ UNCHANGED <<lockFile, snapshotFile, outputFile, structure_changed,
                   snapAtStart>>
    /\ UNCHANGED <<exit_status, normalizer_call, adapter_call>>

\* A retry loop that treats ParsingError as it treats NetworkError
FetchParsingError_Retries(p, D) ==
    /\ pc[p] = "collect"
    /\ LET retry_count == frame[p].retry_count + 1
           counted == [frame[p] EXCEPT
               !.retry_count = retry_count,
               !.last_error = ParsingMessage,
               !.listing_raised = Append(@, Exception("ParsingError", ParsingMessage))]
       IN  IF retry_count < max_retries
           THEN /\ frame' = [frame EXCEPT ![p] =
                       [counted EXCEPT !.sleeps = Append(@, 2 ^ retry_count)]]
                /\ UNCHANGED <<pc, result>>
           ELSE ExceptException(p, counted, counted.last_error)
    /\ calls' = [calls EXCEPT ![p].fetch_animal_list = @ + 1]
    /\ UNCHANGED <<lockFile, snapshotFile, outputFile, structure_changed,
                   snapAtStart>>
    /\ UNCHANGED <<exit_status, normalizer_call, adapter_call>>

\* fetch_animal_list raises ParsingError: no retry, the flag is set (lines
\* 237-240), then except ParsingError of run_collection (lines 163-178)
\* sends the CRITICAL alert and builds the failure summary. D are the
\* outcomes the delivery can have; send_alert swallows a failed one
\* (notification_client.py lines 65-77).
FetchParsingError(p, D) ==
    /\ pc[p] = "collect"
    /\ structure_changed' = [structure_changed EXCEPT ![p] = TRUE]
    /\ \E delivered \in D :
         calls' = [calls EXCEPT ![p].fetch_animal_list = @ + 1,
                                ![p].send_alert = @ + 1,
                                ![p].undelivered = @ + (IF delivered THEN 0 ELSE 1)]
    /\ frame' = [frame EXCEPT
          ![p].errors = Append(@, ParsingMessage),
          ![p].listing_raised = Append(@, Exception("ParsingError", ParsingMessage))]
    /\ result' = [result EXCEPT ![p] =
                      <<FailureResult(Append(frame[p].errors, ParsingMessage))>>]
    /\ pc' = [pc EXCEPT ![p] = "release"]
    /\ UNCHANGED <<lockFile, snapshotFile, outputFile, snapAtStart>>
    /\ UNCHANGED <<exit_status, normalizer_call, adapter_call>>

\* fetch_animal_list raises something else: neither except clause of
\* _collect_with_retry matches, run_collection catches it as Exception.
FetchOtherError(p) ==
    /\ pc[p] = "collect"
    /\ calls' = [calls EXCEPT ![p].fetch_animal_list = @ + 1]
    /\ ExceptException(p,
          [frame[p] EXCEPT !.listing_raised =
               Append(@, Exception("Exception", OtherMessage))],
          OtherMessage)
    /\ UNCHANGED <<lockFile, snapshotFile, outputFile, structure_changed,
                   snapAtStart>>
    /\ UNCHANGED <<exit_status, normalizer_call, adapter_call>>

\* A collection that lists and extracts once more when a detail page failed
CollectOk_RelistsOnFailure(p, U, C) ==
    /\ pc[p] = "collect"
    /\ \E detail_urls \in Listings(U) :
         \E outcome \in [DOMAIN detail_urls -> DetailOutcomes(C)] :
           LET got == collect_details(detail_urls, outcome, 1)
               failed == {detail_urls[i] : i \in
                             {j \in DOMAIN detail_urls : outcome[j].kind # "ok"}}
               times == IF failed = {} THEN 1 ELSE 2
           IN  /\ frame' = [frame EXCEPT ![p] =
                     [EmptyFrame EXCEPT
                         !.detail_urls = detail_urls,
                         !.failed = failed,
                         !.skipped = got.skipped,
                         !.collected_data = got.collected_data]]
               /\ calls' = [calls EXCEPT
                     ![p].fetch_animal_list = @ + times,
                     ![p].extract_animal_details = @ + times * Len(detail_urls)]
    /\ pc' = [pc EXCEPT ![p] = "diff"]
    /\ UNCHANGED <<lockFile, snapshotFile, outputFile, structure_changed, result,
                   snapAtStart>>
    /\ UNCHANGED <<exit_status, normalizer_call, adapter_call>>

\* fetch_animal_list returns a listing over the URLs U and the detail loop
\* runs over it (lines 213-235); C are the contents a page can show.
\* _collect_with_retry returns and its locals retry_count and last_error
\* are gone.
CollectOk(p, U, C) ==
    /\ pc[p] = "collect"
    /\ \E detail_urls \in Listings(U) :
         \E outcome \in [DOMAIN detail_urls -> DetailOutcomes(C)] :
           LET got == collect_details(detail_urls, outcome, 1)
           IN  /\ frame' = [frame EXCEPT ![p] =
                     [EmptyFrame EXCEPT
                         !.detail_urls = detail_urls,
                         !.failed = {detail_urls[i] : i \in
                             {j \in DOMAIN detail_urls : outcome[j].kind # "ok"}},
                         !.skipped = got.skipped,
                                        !.collected_data = got.collected_data]]
               /\ calls' = [calls EXCEPT
                     ![p].fetch_animal_list = @ + 1,
                     ![p].extract_animal_details = @ + Len(detail_urls)]
    /\ pc' = [pc EXCEPT ![p] = "diff"]
    /\ UNCHANGED <<lockFile, snapshotFile, outputFile, structure_changed, result,
                   snapAtStart>>
    /\ UNCHANGED <<exit_status, normalizer_call, adapter_call>>

\* A call in which a notification that cannot be delivered raises
DetectDiff_NotifyRaises(p, D) ==
    /\ pc[p] = "diff"
    /\ LET loaded == load_snapshot(snapshotFile)
           diff == detect_diff(frame[p].collected_data, loaded.data)
           sent == (IF structure_changed[p] THEN 1 ELSE 0)
                       + (IF diff.new # <<>> THEN 1 ELSE 0)
       IN  IF loaded.raised
           THEN /\ ExceptException(p, frame[p], JSONDecodeMessage)
                /\ calls' = [calls EXCEPT ![p].detect_diff = @ + 1]
           ELSE \E delivered \in D :
                  /\ calls' = [calls EXCEPT
                        ![p].detect_diff = @ + 1,
                        ![p].send_alert = @ + (IF structure_changed[p] THEN 1 ELSE 0),
                        ![p].notify_new_animals = @ + (IF diff.new # <<>> THEN 1 ELSE 0),
                        ![p].undelivered = @ + (IF delivered THEN 0 ELSE sent)]
                  /\ IF delivered \/ sent = 0
                     THEN /\ frame' = [frame EXCEPT ![p].diff_result = diff]
                          /\ pc' = [pc EXCEPT ![p] = "output"]
                          /\ UNCHANGED result
                     ELSE ExceptException(p, [frame[p] EXCEPT !.diff_result = diff],
                                          DeliveryErrorMessage)
    /\ UNCHANGED <<lockFile, snapshotFile, outputFile, structure_changed,
                   snapAtStart>>
    /\ UNCHANGED <<exit_status, normalizer_call, adapter_call>>

\* A call that notifies new records only while no call has got as far as
\* the output yet
DetectDiff_NotifiesOnce(p, D) ==
    /\ pc[p] = "diff"
    /\ LET loaded == load_snapshot(snapshotFile)
           diff == detect_diff(frame[p].collected_data, loaded.data)
           notifies == IF diff.new # <<>> /\ outputFile = AbsentFile THEN 1 ELSE 0
           sent == (IF structure_changed[p] THEN 1 ELSE 0) + notifies
       IN  IF loaded.raised
           THEN /\ ExceptException(p, frame[p], JSONDecodeMessage)
                /\ calls' = [calls EXCEPT ![p].detect_diff = @ + 1]
           ELSE /\ frame' = [frame EXCEPT ![p].diff_result = diff]
                /\ \E delivered \in D :
                     calls' = [calls EXCEPT
                        ![p].detect_diff = @ + 1,
                        ![p].send_alert = @ + (IF structure_changed[p] THEN 1 ELSE 0),
                        ![p].notify_new_animals = @ + notifies,
                        ![p].undelivered = @ + (IF delivered THEN 0 ELSE sent)]
                /\ pc' = [pc EXCEPT ![p] = "output"]
                /\ UNCHANGED result
    /\ UNCHANGED <<lockFile, snapshotFile, outputFile, structure_changed,
                   snapAtStart>>
    /\ UNCHANGED <<exit_status, normalizer_call, adapter_call>>

\* detect_diff and the two notifications (lines 119-131). load_snapshot
\* raising ends the call through except Exception. D are the outcomes a
\* delivery can have: send_alert and notify_new_animals swallow a failed
\* one (notification_client.py lines 65-77 and 92-105).
DetectDiff(p, D) ==
    /\ pc[p] = "diff"
    /\ LET loaded == load_snapshot(snapshotFile)
           diff == detect_diff(frame[p].collected_data, loaded.data)
           sent == (IF structure_changed[p] THEN 1 ELSE 0)
                       + (IF diff.new # <<>> THEN 1 ELSE 0)
       IN  IF loaded.raised
           THEN /\ ExceptException(p, frame[p], JSONDecodeMessage)
                /\ calls' = [calls EXCEPT ![p].detect_diff = @ + 1]
           ELSE /\ frame' = [frame EXCEPT ![p].diff_result = diff]
                /\ \E delivered \in D :
                     calls' = [calls EXCEPT
                        ![p].detect_diff = @ + 1,
                        ![p].send_alert = @ + (IF structure_changed[p] THEN 1 ELSE 0),
                        ![p].notify_new_animals = @ + (IF diff.new # <<>> THEN 1 ELSE 0),
                        ![p].undelivered = @ + (IF delivered THEN 0 ELSE sent)]
                /\ pc' = [pc EXCEPT ![p] = "output"]
                /\ UNCHANGED result
    /\ UNCHANGED <<lockFile, snapshotFile, outputFile, structure_changed,
                   snapAtStart>>
    /\ UNCHANGED <<exit_status, normalizer_call, adapter_call>>

\* write_output up to open(OUTPUT_FILE, "w") (lines 46-61): output_data is
\* built and the file is truncated, or mkdir/open raises and the file
\* stays as it was.
WriteOutputOpen(p) ==
    /\ pc[p] = "output"
    /\ calls' = [calls EXCEPT ![p].write_output = @ + 1]
    /\ \E opened \in BOOLEAN :
         LET built == [frame[p] EXCEPT !.output_data =
                 <<OutputData(frame[p].collected_data, frame[p].diff_result)>>]
         IN  IF opened
             THEN /\ outputFile' = TruncatedFile
                  /\ frame' = [frame EXCEPT ![p] = built]
                  /\ pc' = [pc EXCEPT ![p] = "output_dump"]
                  /\ UNCHANGED result
             ELSE /\ ExceptException(p, built, OutputErrorMessage)
                  /\ UNCHANGED outputFile
    /\ UNCHANGED <<lockFile, snapshotFile, structure_changed, snapAtStart>>
    /\ UNCHANGED <<exit_status, normalizer_call, adapter_call>>

\* A write_output whose failed write is swallowed: the call goes on
WriteOutputDump_Swallow(p) ==
    /\ pc[p] = "output_dump"
    /\ \E written \in BOOLEAN :
         /\ outputFile' = IF written THEN CompleteFile ELSE TruncatedFile
         /\ pc' = [pc EXCEPT ![p] = "save"]
         /\ UNCHANGED <<frame, result>>
    /\ UNCHANGED <<lockFile, snapshotFile, structure_changed, calls, snapAtStart>>
    /\ UNCHANGED <<exit_status, normalizer_call, adapter_call>>

\* json.dump(output_data, f) and close (line 62): the document is
\* complete, or the write raises and leaves a cut file.
WriteOutputDump(p) ==
    /\ pc[p] = "output_dump"
    /\ \E written \in BOOLEAN :
         IF written
         THEN /\ outputFile' = CompleteFile
              /\ pc' = [pc EXCEPT ![p] = "save"]
              /\ UNCHANGED <<frame, result>>
         ELSE /\ outputFile' = TruncatedFile
              /\ ExceptException(p, frame[p], OutputErrorMessage)
    /\ UNCHANGED <<lockFile, snapshotFile, structure_changed, calls, snapAtStart>>
    /\ UNCHANGED <<exit_status, normalizer_call, adapter_call>>

\* save_snapshot up to open(snapshot_file, "w") (line 68): the snapshot is
\* truncated, or open raises and the snapshot stays as it was.
SaveSnapshotOpen(p) ==
    /\ pc[p] = "save"
    /\ calls' = [calls EXCEPT ![p].save_snapshot = @ + 1]
    /\ \E opened \in BOOLEAN :
         IF opened
         THEN /\ snapshotFile' = TruncatedFile
              /\ pc' = [pc EXCEPT ![p] = "save_dump"]
              /\ UNCHANGED <<frame, result>>
         ELSE /\ ExceptException(p, frame[p], SnapshotErrorMessage)
              /\ UNCHANGED snapshotFile
    /\ UNCHANGED <<lockFile, outputFile, structure_changed, snapAtStart>>
    /\ UNCHANGED <<exit_status, normalizer_call, adapter_call>>

\* A save that keeps the former snapshot when nothing was collected
SaveSnapshotDump_KeepsOnEmpty(p) ==
    /\ pc[p] = "save_dump"
    /\ \E written \in BOOLEAN :
         IF written
         THEN /\ snapshotFile' = IF frame[p].collected_data = <<>>
                                 THEN snapAtStart[p]
                                 ELSE SnapshotContent(frame[p].collected_data)
              /\ result' = [result EXCEPT ![p] =
                    <<CollectionResult(TRUE,
                          Len(frame[p].collected_data),
                          Len(frame[p].diff_result.new),
                          Len(frame[p].diff_result.updated),
                          Len(frame[p].diff_result.deleted_candidates),
                          frame[p].errors)>>]
              /\ pc' = [pc EXCEPT ![p] = "release"]
              /\ UNCHANGED frame
         ELSE /\ snapshotFile' = TruncatedFile
              /\ ExceptException(p, frame[p], SnapshotErrorMessage)
    /\ UNCHANGED <<lockFile, outputFile, structure_changed, calls, snapAtStart>>
    /\ UNCHANGED <<exit_status, normalizer_call, adapter_call>>

\* A success summary that counts the listed pages instead of the records
SaveSnapshotDump_CountsListed(p) ==
    /\ pc[p] = "save_dump"
    /\ \E written \in BOOLEAN :
         IF written
         THEN /\ snapshotFile' = SnapshotContent(frame[p].collected_data)
              /\ result' = [result EXCEPT ![p] =
                    <<CollectionResult(TRUE,
                          Len(frame[p].detail_urls),
                          Len(frame[p].diff_result.new),
                          Len(frame[p].diff_result.updated),
                          Len(frame[p].diff_result.deleted_candidates),
                          frame[p].errors)>>]
              /\ pc' = [pc EXCEPT ![p] = "release"]
              /\ UNCHANGED frame
         ELSE /\ snapshotFile' = TruncatedFile
              /\ ExceptException(p, frame[p], SnapshotErrorMessage)
    /\ UNCHANGED <<lockFile, outputFile, structure_changed, calls, snapAtStart>>
    /\ UNCHANGED <<exit_status, normalizer_call, adapter_call>>

\* A save that adds the records to those the snapshot held
SaveSnapshotDump_Merges(p) ==
    /\ pc[p] = "save_dump"
    /\ \E written \in BOOLEAN :
         IF written
         THEN /\ snapshotFile' = SnapshotContent(
                     load_snapshot(snapAtStart[p]).data \o frame[p].collected_data)
              /\ result' = [result EXCEPT ![p] =
                    <<CollectionResult(TRUE,
                          Len(frame[p].collected_data),
                          Len(frame[p].diff_result.new),
                          Len(frame[p].diff_result.updated),
                          Len(frame[p].diff_result.deleted_candidates),
                          frame[p].errors)>>]
              /\ pc' = [pc EXCEPT ![p] = "release"]
              /\ UNCHANGED frame
         ELSE /\ snapshotFile' = TruncatedFile
              /\ ExceptException(p, frame[p], SnapshotErrorMessage)
    /\ UNCHANGED <<lockFile, outputFile, structure_changed, calls, snapAtStart>>
    /\ UNCHANGED <<exit_status, normalizer_call, adapter_call>>

\* A save that keeps in the snapshot the records reported as gone
SaveSnapshotDump_KeepsDeleted(p) ==
    /\ pc[p] = "save_dump"
    /\ \E written \in BOOLEAN :
         IF written
         THEN /\ LET previous == load_snapshot(snapAtStart[p]).data
                     Gone(a) == \E i \in DOMAIN frame[p].diff_result.deleted_candidates :
                                   frame[p].diff_result.deleted_candidates[i] = str(a.source_url)
                 IN  snapshotFile' = SnapshotContent(
                         frame[p].collected_data \o SelectSeq(previous, Gone))
              /\ result' = [result EXCEPT ![p] =
                    <<CollectionResult(TRUE,
                          Len(frame[p].collected_data),
                          Len(frame[p].diff_result.new),
                          Len(frame[p].diff_result.updated),
                          Len(frame[p].diff_result.deleted_candidates),
                          frame[p].errors)>>]
              /\ pc' = [pc EXCEPT ![p] = "release"]
              /\ UNCHANGED frame
         ELSE /\ snapshotFile' = TruncatedFile
              /\ ExceptException(p, frame[p], SnapshotErrorMessage)
    /\ UNCHANGED <<lockFile, outputFile, structure_changed, calls, snapAtStart>>
    /\ UNCHANGED <<exit_status, normalizer_call, adapter_call>>

\* A save after which the summary lists the pages that were skipped
SaveSnapshotDump_ReportsSkipped(p) ==
    /\ pc[p] = "save_dump"
    /\ \E written \in BOOLEAN :
         IF written
         THEN /\ snapshotFile' = SnapshotContent(frame[p].collected_data)
              /\ result' = [result EXCEPT ![p] =
                    <<CollectionResult(TRUE,
                          Len(frame[p].collected_data),
                          Len(frame[p].diff_result.new),
                          Len(frame[p].diff_result.updated),
                          Len(frame[p].diff_result.deleted_candidates),
                          frame[p].errors
                              \o [k \in DOMAIN frame[p].skipped |-> OtherMessage])>>]
              /\ pc' = [pc EXCEPT ![p] = "release"]
              /\ UNCHANGED frame
         ELSE /\ snapshotFile' = TruncatedFile
              /\ ExceptException(p, frame[p], SnapshotErrorMessage)
    /\ UNCHANGED <<lockFile, outputFile, structure_changed, calls, snapAtStart>>
    /\ UNCHANGED <<exit_status, normalizer_call, adapter_call>>

\* model_dump, json.dump and close in save_snapshot (lines 69-70), then
\* the success summary of run_collection (lines 139-161); or the write
\* raises and leaves a cut snapshot.
SaveSnapshotDump(p) ==
    /\ pc[p] = "save_dump"
    /\ \E written \in BOOLEAN :
         IF written
         THEN /\ snapshotFile' = SnapshotContent(frame[p].collected_data)
              /\ result' = [result EXCEPT ![p] =
                    <<CollectionResult(TRUE,
                          Len(frame[p].collected_data),
                          Len(frame[p].diff_result.new),
                          Len(frame[p].diff_result.updated),
                          Len(frame[p].diff_result.deleted_candidates),
                          frame[p].errors)>>]
              /\ pc' = [pc EXCEPT ![p] = "release"]
              /\ UNCHANGED frame
         ELSE /\ snapshotFile' = TruncatedFile
              /\ ExceptException(p, frame[p], SnapshotErrorMessage)
    /\ UNCHANGED <<lockFile, outputFile, structure_changed, calls, snapAtStart>>
    /\ UNCHANGED <<exit_status, normalizer_call, adapter_call>>

\* finally: _release_lock, the test LOCK_FILE.exists() (line 280); with
\* no marker there is nothing to remove and the call returns. The summary
\* to return is built: the other locals are not read any more.
ReleaseLock(p) ==
    /\ pc[p] = "release"
    /\ calls' = [calls EXCEPT ![p] = NoCalls]
    /\ pc' = [pc EXCEPT ![p] = IF lockFile THEN "unlink" ELSE "idle"]
    /\ frame' = [frame EXCEPT ![p] = EmptyFrame]
    /\ snapAtStart' = [snapAtStart EXCEPT ![p] = snapshotFile]
    /\ UNCHANGED <<lockFile, snapshotFile, outputFile, structure_changed, result>>
    /\ UNCHANGED <<exit_status, normalizer_call, adapter_call>>

\* LOCK_FILE.unlink() (line 281) and the return; unlink raises
\* FileNotFoundError when the marker went away after the test.
Unlink(p) ==
    /\ pc[p] = "unlink"
    /\ IF lockFile
       THEN /\ lockFile' = FALSE
            /\ UNCHANGED result
       ELSE /\ result' = [result EXCEPT ![p] = <<Raised("FileNotFoundError")>>]
            /\ UNCHANGED lockFile
    /\ pc' = [pc EXCEPT ![p] = "idle"]
    /\ UNCHANGED <<snapshotFile, outputFile, structure_changed, frame, calls,
                   snapAtStart>>
    /\ UNCHANGED <<exit_status, normalizer_call, adapter_call>>

\* The process is killed inside run_collection: its memory is gone, the
\* files stay as they are.
Crash(p) ==
    /\ pc[p] \notin {"idle", "crashed"}
    /\ pc' = [pc EXCEPT ![p] = "crashed"]
    /\ frame' = [frame EXCEPT ![p] = EmptyFrame]
    /\ result' = [result EXCEPT ![p] = <<>>]
    /\ calls' = [calls EXCEPT ![p] = NoCalls]
    /\ snapAtStart' = [snapAtStart EXCEPT ![p] = snapshotFile]
    /\ UNCHANGED <<lockFile, snapshotFile, outputFile, structure_changed>>
    /\ UNCHANGED <<exit_status, normalizer_call, adapter_call>>

\* main() builds a new CollectorService (__init__: _structure_changed = False)
Restart(p) ==
    /\ pc[p] = "crashed"
    /\ pc' = [pc EXCEPT ![p] = "idle"]
    /\ structure_changed' = [structure_changed EXCEPT ![p] = FALSE]
    /\ UNCHANGED <<lockFile, snapshotFile, outputFile, frame, result, calls,
                   snapAtStart>>
    /\ UNCHANGED <<exit_status, normalizer_call, adapter_call>>

\* The operator removes a marker no running call owns
ClearStaleMarker ==
    /\ lockFile
    /\ \A p \in DOMAIN pc : pc[p] \in {"idle", "crashed"}
    /\ lockFile' = FALSE
    /\ UNCHANGED <<snapshotFile, outputFile, pc, structure_changed, frame, result,
                   calls, snapAtStart>>
    /\ UNCHANGED <<exit_status, normalizer_call, adapter_call>>

\* ------------------------------------------------------- specifications
InitFor(P) ==
    /\ lockFile = FALSE
    /\ snapshotFile = AbsentFile
    /\ outputFile = AbsentFile
    /\ pc = [p \in P |-> "idle"]
    /\ structure_changed = [p \in P |-> FALSE]
    /\ frame = [p \in P |-> EmptyFrame]
    /\ result = [p \in P |-> <<>>]
    /\ calls = [p \in P |-> NoCalls]
    /\ snapAtStart = [p \in P |-> AbsentFile]
    /\ exit_status = [p \in P |-> <<>>]
    /\ normalizer_call = NoCall
    /\ adapter_call = NoCall

\* One process: calls of run_collection follow one another
Init == InitFor({1})

Next ==
    \/ \E p \in {1} :
         \/ IsRunning(p)
         \/ AcquireLock(p)
         \/ FetchNetworkError(p)
         \/ FetchParsingError(p, {TRUE})
         \/ FetchOtherError(p)
         \/ CollectOk(p, Urls, Contents)
         \/ DetectDiff(p, {TRUE})
         \/ WriteOutputOpen(p)
         \/ WriteOutputDump(p)
         \/ SaveSnapshotOpen(p)
         \/ SaveSnapshotDump(p)
         \/ ReleaseLock(p)
         \/ Unlink(p)
         \/ Crash(p)
         \/ Restart(p)
    \/ ClearStaleMarker

Spec == Init /\ [][Next]_vars

\* NumProcs processes whose calls of run_collection interleave on one
\* working directory; the site shows one page with one content and no
\* process is killed.
InitConc == InitFor(Procs)

NextConc ==
    \E p \in Procs :
         \/ IsRunning(p)
         \/ AcquireLock(p)
         \/ FetchNetworkError(p)
         \/ FetchParsingError(p, {TRUE})
         \/ FetchOtherError(p)
         \/ CollectOk(p, {1}, {"male"})
         \/ DetectDiff(p, {TRUE})
         \/ WriteOutputOpen(p)
         \/ WriteOutputDump(p)
         \/ SaveSnapshotOpen(p)
         \/ SaveSnapshotDump(p)
         \/ ReleaseLock(p)
         \/ Unlink(p)

SpecConc == InitConc /\ [][NextConc]_vars

\* Record sequences over the URLs U without a repeated URL, the empty one
\* included, each record showing a content of C
RecordSets(U, C) ==
    {<<>>} \cup UNION { {[i \in DOMAIN l |-> AnimalData(l[i], c[i])] :
                            c \in [DOMAIN l -> C]} : l \in Listings(U) }

\* detect_diff on its own: a call that has collected current_data, with
\* previous_data in the snapshot a former call saved, is about to diff.
\* When nothing was collected the listing had one page, which failed.
InitDiff ==
    \E current_data \in RecordSets(DiffUrls, CurrentContents) :
      \E previous_data \in RecordSets(DiffUrls, PreviousContents) :
        LET urls == [i \in DOMAIN current_data |-> str(current_data[i].source_url)]
            detail_urls == IF urls = <<>> THEN <<1>> ELSE urls
        IN  /\ lockFile = TRUE
            /\ snapshotFile \in {SnapshotContent(previous_data)}
                                \cup (IF previous_data = <<>> THEN {AbsentFile} ELSE {})
            /\ outputFile = AbsentFile
            /\ pc = <<"diff">>
            /\ structure_changed = <<FALSE>>
            /\ frame = <<[EmptyFrame EXCEPT
                             !.detail_urls = detail_urls,
                             !.failed = IF urls = <<>> THEN {1} ELSE {},
                             !.skipped = IF urls = <<>> THEN <<1>> ELSE <<>>,
                             !.collected_data = current_data]>>
            /\ result = <<<<>>>>
            /\ calls = <<[NoCalls EXCEPT
                             !.acquire_lock = 1,
                             !.fetch_animal_list = 1,
                             !.extract_animal_details = Len(detail_urls)]>>
            /\ snapAtStart = <<snapshotFile>>
            /\ exit_status = <<<<>>>>
            /\ normalizer_call = NoCall
            /\ adapter_call = NoCall

NextDiff == DetectDiff(1, {TRUE})

SpecDiff == InitDiff /\ [][NextDiff]_vars

\* ------------------------------------------------------------------ main()
\* main() builds the components (lines 37-56): a new CollectorService is
\* ready to run, or a constructor raises and except Exception exits with 1.
MainBuild(p) ==
    /\ pc[p] = "main"
    /\ \E built \in BOOLEAN :
         IF built
         THEN /\ pc' = [pc EXCEPT ![p] = "idle"]
              /\ structure_changed' = [structure_changed EXCEPT ![p] = FALSE]
              /\ UNCHANGED exit_status
         ELSE /\ pc' = [pc EXCEPT ![p] = "exited"]
              /\ exit_status' = [exit_status EXCEPT ![p] = <<1>>]
              /\ UNCHANGED structure_changed
    /\ UNCHANGED <<lockFile, snapshotFile, outputFile, frame, result, calls,
                   snapAtStart, normalizer_call, adapter_call>>

\* LOCK_FILE.touch() raises (line 100 is outside the try block): the
\* exception leaves run_collection
AcquireLockRaises(p) ==
    /\ pc[p] = "acquire"
    /\ result' = [result EXCEPT ![p] = <<Raised("OSError")>>]
    /\ pc' = [pc EXCEPT ![p] = "idle"]
    /\ UNCHANGED <<lockFile, snapshotFile, outputFile, structure_changed, frame,
                   calls, snapAtStart, exit_status, normalizer_call, adapter_call>>

\* An exit that takes the skipped run for a success
MainExit_SkipIsSuccess(p) ==
    /\ pc[p] = "idle"
    /\ result[p] # <<>>
    /\ exit_status' = [exit_status EXCEPT ![p] =
           IF IsResult(result[p][1])
              /\ (result[p][1].success \/ result[p][1].errors = <<"Already running">>)
           THEN <<0>> ELSE <<1>>]
    /\ pc' = [pc EXCEPT ![p] = "exited"]
    /\ UNCHANGED <<lockFile, snapshotFile, outputFile, structure_changed, frame,
                   result, calls, snapAtStart, normalizer_call, adapter_call>>

\* main() after run_collection (lines 60-80): sys.exit(0) when
\* result.success, sys.exit(1) otherwise and when run_collection raised
MainExit(p) ==
    /\ pc[p] = "idle"
    /\ result[p] # <<>>
    /\ exit_status' = [exit_status EXCEPT ![p] =
           IF IsResult(result[p][1]) /\ result[p][1].success THEN <<0>> ELSE <<1>>]
    /\ pc' = [pc EXCEPT ![p] = "exited"]
    /\ UNCHANGED <<lockFile, snapshotFile, outputFile, structure_changed, frame,
                   result, calls, snapAtStart, normalizer_call, adapter_call>>

\* service.run_collection() (line 60), called once by main()
MainRunCollection(p) ==
    /\ result[p] = <<>>
    /\ IsRunning(p)

\* The process is killed between the start of the call and its exit
MainKilled(p) ==
    /\ pc[p] \notin {"main", "exited"}
    /\ Crash(p)

\* The next invocation of the program, after an exit or a kill
MainStart(p) ==
    /\ pc[p] \in {"exited", "crashed"}
    /\ pc' = [pc EXCEPT ![p] = "main"]
    /\ result' = [result EXCEPT ![p] = <<>>]
    /\ exit_status' = [exit_status EXCEPT ![p] = <<>>]
    /\ UNCHANGED <<lockFile, snapshotFile, outputFile, structure_changed, frame,
                   calls, snapAtStart, normalizer_call, adapter_call>>

\* One invocation of the program after another: each builds its service,
\* calls run_collection once and exits, or is killed inside the call. The
\* site lists one page.
InitMain ==
    /\ lockFile = FALSE
    /\ snapshotFile = AbsentFile
    /\ outputFile = AbsentFile
    /\ pc = <<"main">>
    /\ structure_changed = <<FALSE>>
    /\ frame = <<EmptyFrame>>
    /\ result = <<<<>>>>
    /\ calls = <<NoCalls>>
    /\ snapAtStart = <<AbsentFile>>
    /\ exit_status = <<<<>>>>
    /\ normalizer_call = NoCall
    /\ adapter_call = NoCall

NextMain ==
    \E p \in {1} :
         \/ MainBuild(p)
         \/ MainRunCollection(p)
         \/ AcquireLock(p)
         \/ AcquireLockRaises(p)
         \/ FetchNetworkError(p)
         \/ FetchParsingError(p, BOOLEAN)
         \/ FetchOtherError(p)
         \/ CollectOk(p, {1}, Contents)
         \/ DetectDiff(p, BOOLEAN)
         \/ WriteOutputOpen(p)
         \/ WriteOutputDump(p)
         \/ SaveSnapshotOpen(p)
         \/ SaveSnapshotDump(p)
         \/ ReleaseLock(p)
         \/ Unlink(p)
         \/ MainKilled(p)
         \/ MainExit(p)
         \/ MainStart(p)

SpecMain == InitMain /\ [][NextMain]_vars

\* ---------------------------------------------------------- the normalizer
\* The texts made of at most n of the tokens
RECURSIVE Texts(_, _)
Texts(tokens, n) ==
    IF n = 0 THEN {<<>>}
    ELSE LET shorter == Texts(tokens, n - 1)
         IN  shorter \cup {t \o k : t \in shorter, k \in tokens}

\* Pieces of the species, sex, age and phone texts of a page: the kanji
\* inu and neko, the kana i and nu, "dog", "DOG"; "fe", "male", "MALE", the
\* signs, the kana me and su; a number, sai, the small ke, gatsu, nen, "?";
\* groups of digits, parentheses, a hyphen
Tokens ==
  [ species |->
    { <<"U+72AC">>, <<"U+732B">>, <<"U+30A4">>, <<"U+30CC">>, <<"d", "o", "g">>,
      <<"D", "O", "G">>, <<" ">>, <<"x">> },
    sex |->
    { <<"f", "e">>, <<"m", "a", "l", "e">>, <<"M", "A", "L", "E">>, <<"U+2640">>,
      <<"U+2642">>, <<"U+30E1">>, <<"U+30B9">>, <<" ">>, <<"x">> },
    age |->
    { <<"2">>, <<"1", "0">>, <<"U+6B73">>, <<"U+30F6">>, <<"U+6708">>, <<"U+5E74">>,
      <<"?">>, <<" ">> },
    phone |->
    { <<"0", "3">>, <<"0", "8", "8">>, <<"0", "9", "0">>, <<"1", "2", "3">>,
      <<"1", "2", "3", "4">>, <<"4", "5", "6", "7">>, <<"5", "6", "7", "8">>,
      <<"(">>, <<")">>, <<"-">>, <<" ">> } ]

\* The date texts of a page: a year of the era or of the calendar, a month
\* and a day, in one of the five forms, the month and the day with two
\* digits or as they are, between two affixes
EraYears == {1, 8, 99, 100}
Months == {1, 2, 12, 13}
Days == {5, 29, 31}
Num(n, fill) == IF fill THEN ZeroFill(Decimal(n), 2) ELSE Decimal(n)
ReiwaText(N, M, D, fill) ==
    <<"U+4EE4", "U+548C">> \o Decimal(N) \o <<"U+5E74">> \o Num(M, fill)
    \o <<"U+6708">> \o Num(D, fill) \o <<"U+65E5">>
ReiwaShortText(N, M, D, fill) ==
    <<"R">> \o Decimal(N) \o <<".">> \o Num(M, fill) \o <<"/">> \o Num(D, fill)
\* A date of the calendar with the marks after its year, month and day
CalendarText(Y, M, D, marks, fill) ==
    ZeroFill(Decimal(Y), 4) \o marks[1] \o Num(M, fill) \o marks[2]
    \o Num(D, fill) \o marks[3]
DateTexts ==
    LET CalendarYears == {999, 2024, 2026}
        Affixes == {<<>>, <<" ">>, <<"x">>}
        bare == UNION {
            {ReiwaText(N, M, D, fill)
                : N \in EraYears, M \in Months, D \in Days, fill \in BOOLEAN},
            {ReiwaShortText(N, M, D, fill)
                : N \in EraYears, M \in Months, D \in Days, fill \in BOOLEAN},
            {CalendarText(Y, M, D, marks, fill)
                : Y \in CalendarYears, M \in Months, D \in Days,
                  marks \in { <<<<"/">>, <<"/">>, <<>>>>,
                              <<<<"U+5E74">>, <<"U+6708">>, <<"U+65E5">>>>,
                              <<<<"-">>, <<"-">>, <<>>>> },
                  fill \in BOOLEAN} }
    IN  {<<>>} \cup {before \o t \o after : before \in Affixes, t \in bare, after \in Affixes}

\* The raw page of the model with other species, sex, age and date texts
RawAnimalData(species, sex, age, shelter_date) ==
    [ species      |-> species,
      sex          |-> sex,
      age          |-> age,
      color        |-> "brown",
      size         |-> "medium",
      shelter_date |-> shelter_date,
      location     |-> "center",
      phone        |-> <<"0", "8", "8", "-", "1", "2", "3", "-", "4", "5", "6", "7">>,
      image_urls   |-> <<"a.jpg", "b.jpg">>,
      source_url   |-> 1 ]
RawPages ==
    { RawAnimalData(species, sex, age, shelter_date) :
        species \in { <<"U+72AC">>, <<"d", "o", "g">>, <<"U+732B">>, <<"x">>, <<>> },
        sex \in { <<"U+30AA", "U+30B9">>, <<"U+30E1", "U+30B9">>, <<"f", "e", "m", "a", "l", "e">>,
                  <<"x">>, <<>> },
        age \in { <<"2", "U+6B73">>, <<"1", "0", "U+30F6", "U+6708">>, <<"?">>, <<"x">> },
        shelter_date \in { ReiwaText(8, 1, 5, FALSE),
                           CalendarText(2026, 1, 5, <<<<"-">>, <<"-">>, <<>>>>, TRUE),
                           CalendarText(999, 1, 5, <<<<"/">>, <<"/">>, <<>>>>, FALSE),
                           <<"x">> } }

\* The keyword arguments a caller can hand to AnimalData: the fields of a
\* record of the model with another species, sex or age
FieldSets ==
    { [AnimalData(1, "male") EXCEPT !.species = species, !.sex = sex, !.age_months = age_months] :
        species \in { SpeciesDog, SpeciesCat, SpeciesOther, <<"d", "o", "g">>,
                      <<"U+30A4", "U+30CC">>, <<"U+72AC", " ">>, <<>> },
        sex \in { SexMale, SexFemale, SexUnknown, <<"m", "a", "l", "e">>,
                  <<"U+30AA", "U+30B9">>, <<>> },
        age_months \in { None, <<-1>>, <<0>>, <<24>> } }

\* A call that is about to be evaluated
Call(fn, arg, pads_year) ==
    [fn |-> fn, arg |-> arg, pads_year |-> pads_year, ret |-> <<>>, again |-> <<>>]

\* The call returns or raises
Evaluate(outcome) ==
    /\ normalizer_call.ret = <<>>
    /\ normalizer_call' = [normalizer_call EXCEPT !.ret = <<outcome>>]
    /\ UNCHANGED <<lockFile, snapshotFile, outputFile, pc, structure_changed,
                   frame, result, calls, snapAtStart, exit_status, adapter_call>>

\* The function is called again with the value it returned
EvaluateAgain(outcome) ==
    /\ normalizer_call.ret # <<>>
    /\ ~normalizer_call.ret[1].raised
    /\ normalizer_call.again = <<>>
    /\ normalizer_call' = [normalizer_call EXCEPT !.again = <<outcome>>]
    /\ UNCHANGED <<lockFile, snapshotFile, outputFile, pc, structure_changed,
                   frame, result, calls, snapAtStart, exit_status, adapter_call>>

NormalizeSpecies ==
    /\ normalizer_call.fn = "_normalize_species"
    /\ Evaluate(Returns(normalize_species(normalizer_call.arg)))
NormalizeSex ==
    /\ normalizer_call.fn = "_normalize_sex"
    /\ Evaluate(Returns(normalize_sex(normalizer_call.arg)))
NormalizeAge ==
    /\ normalizer_call.fn = "_normalize_age"
    /\ Evaluate(Returns(normalize_age(normalizer_call.arg)))
NormalizePhone ==
    /\ normalizer_call.fn = "_normalize_phone"
    /\ Evaluate(Returns(normalize_phone(normalizer_call.arg)))
NormalizePhoneAgain ==
    /\ normalizer_call.fn = "_normalize_phone"
    /\ EvaluateAgain(Returns(normalize_phone(normalizer_call.ret[1].value)))
NormalizeDate ==
    /\ normalizer_call.fn = "_normalize_date"
    /\ Evaluate(normalize_date(normalizer_call.arg, normalizer_call.pads_year))
NormalizeDateAgain ==
    /\ normalizer_call.fn = "_normalize_date"
    /\ EvaluateAgain(normalize_date(normalizer_call.ret[1].value,
                                    normalizer_call.pads_year))
NewAnimalData ==
    /\ normalizer_call.fn = "AnimalData"
    /\ Evaluate(AnimalDataInit(normalizer_call.arg))
Normalize ==
    /\ normalizer_call.fn = "normalize"
    /\ Evaluate(normalize(normalizer_call.arg, normalizer_call.pads_year))

\* One call of a function of the normalizer, or of the constructor, on one
\* of the inputs; the C library pads %Y or does not
InitNormalizer ==
    /\ lockFile = FALSE
    /\ snapshotFile = AbsentFile
    /\ outputFile = AbsentFile
    /\ pc = <<"idle">>
    /\ structure_changed = <<FALSE>>
    /\ frame = <<EmptyFrame>>
    /\ result = <<<<>>>>
    /\ calls = <<NoCalls>>
    /\ snapAtStart = <<AbsentFile>>
    /\ exit_status = <<<<>>>>
    /\ normalizer_call \in
           {Call("_normalize_species", t, FALSE) : t \in Texts(Tokens.species, MaxTokens)}
           \cup {Call("_normalize_sex", t, FALSE) : t \in Texts(Tokens.sex, MaxTokens)}
           \cup {Call("_normalize_age", t, FALSE) : t \in Texts(Tokens.age, MaxTokens)}
           \cup {Call("_normalize_phone", t, FALSE) : t \in Texts(Tokens.phone, MaxTokens)}
           \cup {Call("_normalize_date", t, pads_year) : t \in DateTexts, pads_year \in BOOLEAN}
           \cup {Call("AnimalData", fields, FALSE) : fields \in FieldSets}
           \cup {Call("normalize", raw_data, pads_year) : raw_data \in RawPages, pads_year \in BOOLEAN}
    /\ adapter_call = NoCall

NextNormalizer ==
    \/ NormalizeSpecies
    \/ NormalizeSex
    \/ NormalizeAge
    \/ NormalizePhone
    \/ NormalizePhoneAgain
    \/ NormalizeDate
    \/ NormalizeDateAgain
    \/ NewAnimalData
    \/ Normalize

SpecNormalizer == InitNormalizer /\ [][NextNormalizer]_vars

\* ------------------------------------------------------------- the listing
\* The listing endpoints fetch_animal_list reads, in this order
ListPages == <<"jouto", "maigo">>

\* What a listing endpoint answers: requests.get raises (no connection, a
\* timeout), the status is an error, or a page with anchors. An anchor
\* points to the detail page of path under /center-data/, with or without
\* a last "/", or elsewhere.
Responses(U) ==
    LET Anchors == [center_data : {TRUE}, path : U, slash : BOOLEAN]
                       \cup {[center_data |-> FALSE, path |-> 0, slash |-> TRUE]}
    IN  {[kind |-> k, anchors |-> <<>>] : k \in {"RequestException", "HTTPError"}}
        \cup {[kind |-> "page", anchors |-> a] :
                  a \in {<<>>} \cup [1..1 -> Anchors] \cup [1..2 -> Anchors]}

\* KochiAdapter._fetch_from_page: both request failures become
\* NetworkError; a page without an anchor to /center-data/ raises
\* ParsingError; else the absolute URL of every such anchor without its
\* last "/", which is the URL of the path
fetch_from_page(response) ==
    IF response.kind # "page" THEN Raises("NetworkError")
    ELSE LET detail_links == SelectSeq(response.anchors, LAMBDA a : a.center_data)
         IN  IF detail_links = <<>> THEN Raises("ParsingError")
             ELSE Returns([i \in DOMAIN detail_links |-> detail_links[i].path])

\* A listing that goes on with the next endpoint when one fails
FetchFromPage_SkipsFailedPage ==
    /\ adapter_call.ret = <<>>
    /\ Len(adapter_call.requested) < Len(ListPages)
    /\ LET page_url == ListPages[Len(adapter_call.requested) + 1]
           urls == fetch_from_page(adapter_call.site[page_url])
       IN  adapter_call' = [adapter_call EXCEPT
               !.requested = Append(@, page_url),
               !.all_urls = IF urls.raised THEN @ ELSE @ \o urls.value]
    /\ UNCHANGED <<lockFile, snapshotFile, outputFile, pc, structure_changed,
                   frame, result, calls, snapAtStart, exit_status, normalizer_call>>

\* One pass of the loop of fetch_animal_list (lines 72-82): the URLs of the
\* next endpoint join all_urls, or its exception leaves the function
FetchFromPage ==
    /\ adapter_call.ret = <<>>
    /\ Len(adapter_call.requested) < Len(ListPages)
    /\ LET page_url == ListPages[Len(adapter_call.requested) + 1]
           urls == fetch_from_page(adapter_call.site[page_url])
       IN  adapter_call' = [adapter_call EXCEPT
               !.requested = Append(@, page_url),
               !.all_urls = IF urls.raised THEN @ ELSE @ \o urls.value,
               !.ret = IF urls.raised THEN <<urls>> ELSE @]
    /\ UNCHANGED <<lockFile, snapshotFile, outputFile, pc, structure_changed,
                   frame, result, calls, snapAtStart, exit_status, normalizer_call>>

\* return list(set(all_urls)) (line 85): every URL once, in the order the
\* set gives
ReturnList ==
    /\ adapter_call.ret = <<>>
    /\ Len(adapter_call.requested) = Len(ListPages)
    /\ \E l \in Listings(Range(adapter_call.all_urls)) :
         /\ Range(l) = Range(adapter_call.all_urls)
         /\ adapter_call' = [adapter_call EXCEPT !.ret = <<Returns(l)>>]
    /\ UNCHANGED <<lockFile, snapshotFile, outputFile, pc, structure_changed,
                   frame, result, calls, snapAtStart, exit_status, normalizer_call>>

\* One call of fetch_animal_list on a site whose two endpoints answer in
\* any of the ways
InitListing ==
    /\ lockFile = FALSE
    /\ snapshotFile = AbsentFile
    /\ outputFile = AbsentFile
    /\ pc = <<"idle">>
    /\ structure_changed = <<FALSE>>
    /\ frame = <<EmptyFrame>>
    /\ result = <<<<>>>>
    /\ calls = <<NoCalls>>
    /\ snapAtStart = <<AbsentFile>>
    /\ exit_status = <<<<>>>>
    /\ normalizer_call = NoCall
    /\ adapter_call \in
           {[site |-> site, requested |-> <<>>, all_urls |-> <<>>, ret |-> <<>>] :
               site \in [Range(ListPages) -> Responses(Urls)]}

NextListing == FetchFromPage \/ ReturnList

SpecListing == InitListing /\ [][NextListing]_vars

\* ------------------------------------------------------------- termination
\* requests.post(webhook_url, json=payload) of _send_slack_alert and
\* _send_new_animals_slack (notification_client.py lines 136 and 170) has no
\* timeout: when the webhook accepts the connection and never answers, the
\* call does not return and nothing in the process interrupts it. The alert
\* is posted after the listing raised ParsingError, or in the diff step when
\* the flag is set; the new records are posted when the diff has any.
DeliveryBlocks(p) ==
    /\ \/ /\ pc[p] = "collect"
          /\ structure_changed' = [structure_changed EXCEPT ![p] = TRUE]
          /\ calls' = [calls EXCEPT ![p].fetch_animal_list = @ + 1,
                                    ![p].send_alert = @ + 1]
          /\ frame' = [frame EXCEPT
                ![p].errors = Append(@, ParsingMessage),
                ![p].listing_raised = Append(@, Exception("ParsingError", ParsingMessage))]
       \/ /\ pc[p] = "diff"
          /\ LET loaded == load_snapshot(snapshotFile)
                 diff == detect_diff(frame[p].collected_data, loaded.data)
             IN  /\ ~loaded.raised
                 /\ structure_changed[p] \/ diff.new # <<>>
                 /\ frame' = [frame EXCEPT ![p].diff_result = diff]
                 /\ calls' = [calls EXCEPT
                        ![p].detect_diff = @ + 1,
                        ![p].send_alert = @ + (IF structure_changed[p] THEN 1 ELSE 0),
                        ![p].notify_new_animals = @ + (IF structure_changed[p] THEN 0 ELSE 1)]
          /\ UNCHANGED structure_changed
    /\ pc' = [pc EXCEPT ![p] = "post"]
    /\ UNCHANGED <<lockFile, snapshotFile, outputFile, result, snapAtStart>>
    /\ UNCHANGED <<exit_status, normalizer_call, adapter_call>>

\* Calls of run_collection in a process that is not killed. The site lists
\* one page. Every step that is enabled is taken in the end: the fetches
\* have a timeout of 30 seconds, the retry loop sleeps 2, 4 and 8 seconds,
\* the rest is local computation and file access.
NextLive ==
    \E p \in {1} :
        \/ IsRunning(p)
        \/ AcquireLock(p)
        \/ FetchNetworkError(p)
        \/ FetchParsingError(p, BOOLEAN)
        \/ FetchOtherError(p)
        \/ CollectOk(p, {1}, Contents)
        \/ DetectDiff(p, BOOLEAN)
        \/ DeliveryBlocks(p)
        \/ WriteOutputOpen(p)
        \/ WriteOutputDump(p)
        \/ SaveSnapshotOpen(p)
        \/ SaveSnapshotDump(p)
        \/ ReleaseLock(p)
        \/ Unlink(p)

SpecLive == Init /\ [][NextLive]_vars /\ WF_vars(NextLive)

\* ================================================================ claims
AlreadyRunning == FailureResult(<<"Already running">>)

\* The call of p has returned a summary or raised
Returned(p) == pc[p] = "idle" /\ result[p] # <<>>

\* p is between the creation of the marker and its release
HoldsMarker(p) ==
    pc[p] \in {"collect", "diff", "output", "output_dump", "save", "save_dump",
               "release", "unlink"}

\* C1: a call that passed the marker check and created the marker has
\* removed it when it returns, whatever summary it returns (every return
\* other than the early "Already running" one is of such a call).
C1_MarkerAbsentOnReturn ==
    \A p \in DOMAIN pc :
        (Returned(p) /\ result[p][1] # AlreadyRunning) => ~lockFile

\* A call has returned after its save_snapshot raised, and the marker is gone
C1_Witness ==
    \E p \in DOMAIN pc :
        /\ Returned(p)
        /\ result[p][1] = FailureResult(<<SnapshotErrorMessage>>)
        /\ ~lockFile

\* C2: at most one call is between marker creation and marker release
C2_SingleFlight ==
    Cardinality({p \in DOMAIN pc : HoldsMarker(p)}) <= 1

\* C3: a call that finds the marker returns at once success=false with
\* errors ["Already running"], leaves the marker and the files as they
\* are and has called no collaborator.
C3_AlreadyRunning ==
    [][\A p \in DOMAIN pc :
          (IsRunning(p) /\ lockFile) =>
              /\ pc'[p] = "idle"
              /\ result'[p] = <<AlreadyRunning>>
              /\ result'[p][1].success = FALSE
              /\ lockFile'
              /\ calls'[p] = NoCalls
              /\ UNCHANGED <<snapshotFile, outputFile, structure_changed>>]_vars

\* A call has returned "Already running" and the marker is still there
C3_Witness ==
    \E p \in DOMAIN pc :
        Returned(p) /\ result[p][1] = AlreadyRunning /\ lockFile

AllNetworkErrors(raised) ==
    \A i \in DOMAIN raised : raised[i].type = "NetworkError"

Last(seq) == seq[Len(seq)]

\* C4: the listing is attempted at least once and at most max_retries
\* times; while another attempt is due every attempt so far raised a
\* NetworkError; an attempt that follows k failures and returns a listing
\* is attempt k + 1, and the call goes on with that listing.
C4_ListingAttempts ==
    [][\A p \in DOMAIN pc :
          pc[p] = "collect" =>
              LET k == Len(frame[p].listing_raised)
              IN  /\ k < max_retries
                  /\ AllNetworkErrors(frame[p].listing_raised)
                  /\ calls[p].fetch_animal_list = k
                  /\ pc'[p] \in {"collect", "diff", "release", "crashed"}
                  /\ pc'[p] = "collect" =>
                        /\ calls'[p].fetch_animal_list = k + 1
                        /\ Len(frame'[p].listing_raised) = k + 1
                        /\ AllNetworkErrors(frame'[p].listing_raised)
                  /\ pc'[p] = "diff" =>
                        /\ calls'[p].fetch_animal_list = k + 1
                        /\ frame'[p].detail_urls # <<>>
                        /\ calls'[p].extract_animal_details
                               = Len(frame'[p].detail_urls)
                  /\ pc'[p] = "release" =>
                        calls'[p].fetch_animal_list = k + 1]_vars

\* The third attempt returned a listing after two network failures
C4_Witness ==
    \E p \in DOMAIN pc :
        /\ pc[p] = "diff"
        /\ calls[p].fetch_animal_list = 3
        /\ frame[p].collected_data # <<>>

\* C5: after max_retries listing attempts that all raised NetworkError the
\* call is over: its summary is success=false with the message of the
\* last of them as the only error, the listing was attempted exactly
\* max_retries times and nothing else was called or written.
C5_NetworkFailure ==
    \A p \in DOMAIN pc :
        LET raised == frame[p].listing_raised
        IN  (Len(raised) = max_retries /\ AllNetworkErrors(raised)) =>
                /\ pc[p] = "release"
                /\ result[p] = <<FailureResult(<<Last(raised).message>>)>>
                /\ calls[p] = [NoCalls EXCEPT !.acquire_lock = 1,
                                              !.fetch_animal_list = max_retries]
                /\ snapshotFile = snapAtStart[p]

\* Three network failures, the last with another message than the first
C5_Witness ==
    \E p \in DOMAIN pc :
        /\ pc[p] = "release"
        /\ Len(frame[p].listing_raised) = max_retries
        /\ frame[p].listing_raised[1].message = "HTTP 500"
        /\ Last(frame[p].listing_raised).message = "timeout"
        /\ result[p] = <<FailureResult(<<"timeout">>)>>

\* C6: once a listing attempt raised ParsingError no further attempt
\* follows, also after network failures: the summary is success=false
\* with the mismatch message as the only error, exactly one alert was
\* sent, no detail page was fetched and neither the output nor the
\* snapshot was written.
C6_StructureMismatch ==
    \A p \in DOMAIN pc :
        LET raised == frame[p].listing_raised
        IN  (raised # <<>> /\ Last(raised).type = "ParsingError") =>
                /\ pc[p] = "release"
                /\ AllNetworkErrors(SubSeq(raised, 1, Len(raised) - 1))
                /\ result[p] = <<FailureResult(<<Last(raised).message>>)>>
                /\ calls[p] = [NoCalls EXCEPT !.acquire_lock = 1,
                                              !.fetch_animal_list = Len(raised),
                                              !.send_alert = 1]
                /\ structure_changed[p]
                /\ snapshotFile = snapAtStart[p]

\* The mismatch came at the third attempt, after two network failures
C6_Witness ==
    \E p \in DOMAIN pc :
        /\ pc[p] = "release"
        /\ Len(frame[p].listing_raised) = 3
        /\ Last(frame[p].listing_raised).type = "ParsingError"
        /\ calls[p].send_alert = 1

\* The listing of the call of p has succeeded and its locals are alive
PastCollect(p) ==
    /\ pc[p] \in {"diff", "output", "output_dump", "save", "save_dump", "release"}
    /\ frame[p].detail_urls # <<>>

\* C7: after a listing, whichever listed pages fail, collected_data is the
\* records of the pages that did not fail, in listing order; the failures
\* are no error of the call: it reaches the diff, and unless the snapshot
\* load, the output write or the snapshot write fails it persists the
\* collected records and returns success=true with their number.
C7_DetailIsolation ==
    \A p \in DOMAIN pc :
        PastCollect(p) =>
            LET f == frame[p]
                Kept(u) == u \notin f.failed
                kept == SelectSeq(f.detail_urls, Kept)
            IN  /\ Len(f.collected_data) = Len(kept)
                /\ \A i \in DOMAIN kept :
                       \E c \in Contents : f.collected_data[i] = AnimalData(kept[i], c)
                /\ pc[p] # "diff" => calls[p].detect_diff = 1
                /\ pc[p] = "release" =>
                      IF f.errors = <<>>
                      THEN /\ result[p][1].success
                           /\ result[p][1].total_collected = Len(kept)
                           /\ result[p][1].errors = <<>>
                           /\ snapshotFile = SnapshotContent(f.collected_data)
                           /\ outputFile = CompleteFile
                      ELSE f.errors \in {<<JSONDecodeMessage>>, <<OutputErrorMessage>>,
                                         <<SnapshotErrorMessage>>}

\* Of two listed pages the first failed: one record, success
C7_Witness ==
    \E p \in DOMAIN pc :
        /\ pc[p] = "release"
        /\ Len(frame[p].detail_urls) = 2
        /\ frame[p].failed = {frame[p].detail_urls[1]}
        /\ Len(frame[p].collected_data) = 1
        /\ result[p][1].success
        /\ result[p][1].total_collected = 1

\* C8: the snapshot is touched only after write_output has completed the
\* output document of this call; between the two steps, where a crash or
\* a failure of save_snapshot's open ends the call, the previous snapshot
\* is in place next to the completed document.
C8_OutputBeforeSnapshot ==
    \A p \in DOMAIN pc :
        (HoldsMarker(p) /\ pc[p] # "unlink") =>
            /\ (snapshotFile # snapAtStart[p] \/ calls[p].save_snapshot > 0) =>
                  /\ calls[p].write_output = 1
                  /\ outputFile = CompleteFile
                  /\ frame[p].output_data =
                         <<OutputData(frame[p].collected_data, frame[p].diff_result)>>
            /\ pc[p] = "save" =>
                  /\ snapshotFile = snapAtStart[p]
                  /\ outputFile = CompleteFile
                  /\ calls[p].save_snapshot = 0

\* Between the two steps with an earlier snapshot that differs from what
\* this call collected
C8_Witness ==
    \E p \in DOMAIN pc :
        /\ pc[p] = "save"
        /\ snapAtStart[p].kind = "valid"
        /\ snapshotFile = snapAtStart[p]
        /\ snapshotFile # SnapshotContent(frame[p].collected_data)
        /\ outputFile = CompleteFile

\* C9: a call that returns success=false leaves the snapshot as it was
\* when the call started.
C9_SnapshotKeptOnFailure ==
    \A p \in DOMAIN pc :
        (pc[p] = "release" /\ ~result[p][1].success) =>
            snapshotFile = snapAtStart[p]

\* C10: wherever a call ends, by a return or by a kill, the snapshot on
\* disk is one load_snapshot accepts: a complete record set, never a
\* truncated file.
C10_AtomicOverwrite ==
    \A p \in DOMAIN pc :
        pc[p] \in {"release", "crashed"} => ~load_snapshot(snapshotFile).raised

\* --------------------------------------------------------------- the diff
\* detect_diff has returned in the call of p and nothing was written since
DiffDone(p) == pc[p] = "output"

\* The record set detect_diff loaded in the call of p
PreviousData(p) == load_snapshot(snapshotFile).data

UrlsOf(animals) == [i \in DOMAIN animals |-> str(animals[i].source_url)]

\* C11: after detect_diff, new and updated hold distinct identifiers of
\* current and share none, so every identifier of current is new, updated
\* or in neither; the delete candidates are exactly the identifiers of
\* previous that current lacks, each once; no identifier is in two lists.
C11_DiffPartition ==
    \A p \in DOMAIN pc :
        DiffDone(p) =>
            LET d == frame[p].diff_result
                new == UrlsOf(d.new)
                updated == UrlsOf(d.updated)
                current == Range(UrlsOf(frame[p].collected_data))
                previous == Range(UrlsOf(PreviousData(p)))
                NoRepeat(seq) == \A i, j \in DOMAIN seq : i # j => seq[i] # seq[j]
            IN  /\ NoRepeat(new \o updated \o d.deleted_candidates)
                /\ Range(new) \cup Range(updated) \subseteq current
                /\ Range(d.deleted_candidates) = previous \ current

\* previous = [A, D], current = [A', N]: one updated, one new, one deleted
C11_Witness ==
    \E p \in DOMAIN pc :
        /\ DiffDone(p)
        /\ Len(frame[p].collected_data) = 2
        /\ Len(PreviousData(p)) = 2
        /\ Len(frame[p].diff_result.new) = 1
        /\ Len(frame[p].diff_result.updated) = 1
        /\ Len(frame[p].diff_result.deleted_candidates) = 1

\* list holds elements of base in the order base has them
InOrderOf(list, base) ==
    \A i, j \in DOMAIN list :
        i < j => \E k, l \in DOMAIN base :
                    k < l /\ base[k] = list[i] /\ base[l] = list[j]

\* C12: new and updated keep the order their records have in current, the
\* delete candidates the order their identifiers have in previous.
C12_DiffOrder ==
    \A p \in DOMAIN pc :
        DiffDone(p) =>
            LET d == frame[p].diff_result
            IN  /\ InOrderOf(d.new, frame[p].collected_data)
                /\ InOrderOf(d.updated, frame[p].collected_data)
                /\ InOrderOf(d.deleted_candidates, UrlsOf(PreviousData(p)))

\* previous = [A, B, C] with A after C in URL order, current = [B]:
\* deleted = [A, C], nothing new or updated
C12_Witness ==
    \E p \in DOMAIN pc :
        LET previous == UrlsOf(PreviousData(p))
        IN  /\ DiffDone(p)
            /\ Len(previous) = 3
            /\ previous[1] > previous[3]
            /\ frame[p].collected_data = <<AnimalData(previous[2], "male")>>
            /\ frame[p].diff_result = DiffResult(<<>>, <<>>, <<previous[1], previous[3]>>)

CompareFields ==
    {"species", "sex", "age_months", "color", "size", "shelter_date",
     "location", "phone", "image_urls"}

\* C13: a record of current whose identifier previous has too is in
\* updated exactly if one of the compared fields differs between the two,
\* the images compared as a sequence; it is never new nor a delete
\* candidate, so with all fields equal it is in no list.
C13_UpdatedIffFieldDiffers ==
    \A p \in DOMAIN pc :
        DiffDone(p) =>
            LET d == frame[p].diff_result
                current == frame[p].collected_data
                previous == PreviousData(p)
            IN  \A i \in DOMAIN current : \A j \in DOMAIN previous :
                    str(current[i].source_url) = str(previous[j].source_url) =>
                        /\ current[i] \in Range(d.updated)
                              <=> \E f \in CompareFields : current[i][f] # previous[j][f]
                        /\ current[i] \notin Range(d.new)
                        /\ str(current[i].source_url) \notin Range(d.deleted_candidates)

\* One known record with another sex, one with its images swapped and
\* one unchanged: two updated
C13_Witness ==
    \E p \in DOMAIN pc :
        /\ DiffDone(p)
        /\ PreviousData(p) =
               <<AnimalData(1, "male"), AnimalData(2, "male"), AnimalData(3, "male")>>
        /\ frame[p].collected_data =
               <<AnimalData(1, "female"), AnimalData(2, "male"), AnimalData(3, "swapped")>>
        /\ frame[p].diff_result =
               DiffResult(<<>>, <<AnimalData(1, "female"), AnimalData(3, "swapped")>>, <<>>)

\* C14: in a call that started without a snapshot file and collected, the
\* load does not fail and the diff is: every collected record new, in
\* order, nothing updated, no delete candidate.
C14_FirstRun ==
    \A p \in DOMAIN pc :
        (PastCollect(p) /\ pc[p] # "diff" /\ snapAtStart[p] = AbsentFile) =>
            /\ frame[p].errors # <<JSONDecodeMessage>>
            /\ frame[p].diff_result = DiffResult(frame[p].collected_data, <<>>, <<>>)

\* No snapshot file and three collected records: three new
C14_Witness ==
    \E p \in DOMAIN pc :
        /\ DiffDone(p)
        /\ snapshotFile = AbsentFile
        /\ Len(frame[p].collected_data) = 3
        /\ Len(frame[p].diff_result.new) = 3
        /\ frame[p].diff_result.updated = <<>>
        /\ frame[p].diff_result.deleted_candidates = <<>>

\* save_snapshot has completed in the call of p
Saved(p) == pc[p] = "release" /\ calls[p].save_snapshot = 1 /\ frame[p].errors = <<>>

DiffReturned(p) ==
    PastCollect(p) /\ pc[p] # "diff" /\ frame[p].errors # <<JSONDecodeMessage>>

\* C16: a call whose listing succeeded and whose pages all failed diffs
\* the empty set: every identifier of the snapshot it found is a delete
\* candidate and nothing is new or updated; once its save completes it
\* returns success=true with total 0 and the snapshot holds the empty
\* set. A call that finds that empty snapshot reports all it collects as
\* new.
C16_EmptyCollection ==
    \A p \in DOMAIN pc :
        /\ (DiffReturned(p) /\ frame[p].collected_data = <<>>) =>
              LET previous == UrlsOf(load_snapshot(snapAtStart[p]).data)
              IN  /\ frame[p].diff_result = DiffResult(<<>>, <<>>, previous)
                  /\ Saved(p) =>
                        /\ result[p] = <<CollectionResult(TRUE, 0, 0, 0,
                                                          Len(previous), <<>>)>>
                        /\ snapshotFile = SnapshotContent(<<>>)
                        /\ load_snapshot(snapshotFile) = [raised |-> FALSE, data |-> <<>>]
        /\ (DiffReturned(p) /\ snapAtStart[p] = SnapshotContent(<<>>)) =>
              frame[p].diff_result = DiffResult(frame[p].collected_data, <<>>, <<>>)

\* Both listed pages failed over a snapshot of two records
C16_Witness ==
    \E p \in DOMAIN pc :
        /\ Saved(p)
        /\ Len(frame[p].detail_urls) = 2
        /\ frame[p].collected_data = <<>>
        /\ snapAtStart[p].kind = "valid"
        /\ Len(snapAtStart[p].animals) = 2
        /\ result[p][1].success
        /\ result[p][1].deleted_count = 2
        /\ snapshotFile = SnapshotContent(<<>>)

\* C17: a call that finds a snapshot file it cannot parse ends at the
\* load: its summary is success=false with the load failure as the only
\* error, write_output, save_snapshot and the new-records notification
\* are not called, and the file stays as it was; when the call has
\* returned the marker is gone and the file is still the malformed one.
C17_MalformedSnapshotFatal ==
    \A p \in DOMAIN pc :
        /\ (PastCollect(p) /\ pc[p] # "diff" /\ snapAtStart[p] = TruncatedFile) =>
              /\ pc[p] = "release"
              /\ result[p] = <<FailureResult(<<JSONDecodeMessage>>)>>
              /\ calls[p].detect_diff = 1
              /\ calls[p].notify_new_animals = 0
              /\ calls[p].write_output = 0
              /\ calls[p].save_snapshot = 0
              /\ snapshotFile = TruncatedFile
        /\ (Returned(p) /\ result[p] = <<FailureResult(<<JSONDecodeMessage>>)>>) =>
              /\ ~lockFile
              /\ snapshotFile = TruncatedFile

\* The call has returned the load failure
C17_Witness ==
    \E p \in DOMAIN pc :
        /\ Returned(p)
        /\ result[p] = <<FailureResult(<<JSONDecodeMessage>>)>>
        /\ snapshotFile = TruncatedFile
        /\ ~lockFile

\* ------------------------------------------------------------------ exit
\* C18: main() exits with 0 exactly when run_collection returned a summary
\* with success=true, and with 1 in every other case: a summary with
\* success=false, whatever its error, an exception that left
\* run_collection, an exception while the components were built.
C18_ExitStatus ==
    \A p \in DOMAIN pc :
        /\ pc[p] = "exited" <=> exit_status[p] # <<>>
        /\ pc[p] = "exited" =>
              /\ exit_status[p] \in {<<0>>, <<1>>}
              /\ exit_status[p] = <<0>> <=>
                    /\ result[p] # <<>>
                    /\ IsResult(result[p][1])
                    /\ result[p][1].success

\* The program found the marker of a killed invocation and exited with 1
C18_Witness ==
    \E p \in DOMAIN pc :
        /\ pc[p] = "exited"
        /\ result[p] = <<AlreadyRunning>>
        /\ exit_status[p] = <<1>>

\* ---------------------------------------------------------------- summary
NoCounts(r) ==
    /\ r.total_collected = 0
    /\ r.new_count = 0
    /\ r.updated_count = 0
    /\ r.deleted_count = 0

\* C19: when the summary of a call is built, either it is success=true
\* and its four counts are the number of collected records and the
\* lengths of the diff's three lists, the numbers the output document of
\* the call holds too; or it is success=false with at least one error and
\* four counts of 0. The summary of a skipped call is of the second kind.
C19_SummaryConsistent ==
    \A p \in DOMAIN pc :
        /\ pc[p] = "release" =>
              LET r == result[p][1]
                  d == frame[p].diff_result
              IN  IF r.success
                  THEN /\ r.total_collected = Len(frame[p].collected_data)
                       /\ r.new_count = Len(d.new)
                       /\ r.updated_count = Len(d.updated)
                       /\ r.deleted_count = Len(d.deleted_candidates)
                       /\ Len(frame[p].output_data) = 1
                       /\ frame[p].output_data[1].total_count = r.total_collected
                       /\ frame[p].output_data[1].new_count = r.new_count
                       /\ frame[p].output_data[1].updated_count = r.updated_count
                       /\ frame[p].output_data[1].deleted_count = r.deleted_count
                  ELSE r.errors # <<>> /\ NoCounts(r)
        /\ (Returned(p) /\ IsResult(result[p][1]) /\ ~result[p][1].success) =>
              result[p][1].errors # <<>> /\ NoCounts(result[p][1])

\* One page failed, one record is an update: total 1 of 2 listed
C19_Witness ==
    \E p \in DOMAIN pc :
        /\ pc[p] = "release"
        /\ result[p][1].success
        /\ Len(frame[p].detail_urls) = 2
        /\ result[p][1].total_collected = 1
        /\ result[p][1].updated_count = 1
        /\ result[p][1].deleted_count = 1

\* ---------------------------------------------------------- notifications
\* C20: while a call runs, notify_new_animals has been called once if
\* detect_diff has returned a diff whose new list is not empty, and not
\* at all otherwise. A delivery that fails is only counted: the error of
\* a failed call is always one of the run's own failures, and a call
\* without such a failure has written output and snapshot and reports
\* success, whether its notifications were delivered or not.
C20_NotificationBestEffort ==
    \A p \in DOMAIN pc :
        pc[p] \in {"collect", "diff", "output", "output_dump", "save",
                   "save_dump", "release"} =>
          LET \* the messages of the failures that end a call
              RunFailures ==
                  NetworkMessages \cup {ParsingMessage, OtherMessage, JSONDecodeMessage,
                                        OutputErrorMessage, SnapshotErrorMessage}
          IN
            /\ calls[p].notify_new_animals =
                  IF DiffReturned(p) /\ frame[p].diff_result.new # <<>> THEN 1 ELSE 0
            /\ calls[p].undelivered <= calls[p].notify_new_animals + calls[p].send_alert
            /\ pc[p] = "release" =>
                  IF frame[p].errors = <<>>
                  THEN /\ result[p][1].success
                       /\ calls[p].write_output = 1
                       /\ calls[p].save_snapshot = 1
                       /\ outputFile = CompleteFile
                       /\ snapshotFile = SnapshotContent(frame[p].collected_data)
                  ELSE /\ ~result[p][1].success
                       /\ \E m \in RunFailures : result[p][1].errors = <<m>>

\* The notification of one new record was not delivered: success all the same
C20_Witness ==
    \E p \in DOMAIN pc :
        /\ Saved(p)
        /\ calls[p].notify_new_animals = 1
        /\ calls[p].undelivered = 1
        /\ result[p][1].success
        /\ result[p][1].new_count = 1
        /\ snapshotFile = SnapshotContent(frame[p].collected_data)

\* ------------------------------------------------------ structure changes
\* C21: while a call runs, send_alert has been called once if the flag
\* was set in this call and not at all otherwise; so a call that collects
\* sends no alert, whatever earlier calls on the same service did.
C21_AlertIffFlagSetInRun ==
    \A p \in DOMAIN pc :
        pc[p] \in {"collect", "diff", "output", "output_dump", "save",
                   "save_dump", "release"} =>
            LET \* the flag was set in this call: its listing raised ParsingError
                FlagSetInThisRun ==
                    /\ frame[p].listing_raised # <<>>
                    /\ Last(frame[p].listing_raised).type = "ParsingError"
            IN  calls[p].send_alert = IF FlagSetInThisRun THEN 1 ELSE 0

\* C22: a call goes on from collecting to the diff only if no detail page
\* raised ParsingError: a mismatch on a detail page ends the call like one
\* on the listing.
C22_DetailMismatchFatal ==
    [][\A p \in DOMAIN pc :
          (pc[p] = "collect" /\ pc'[p] = "diff") =>
              LET \* what the pages of the listing did, when the detail loop
                  \* left collected_data and the failed pages failed
                  PossibleOutcomes(detail_urls, collected_data, failed) ==
                      { outcome \in [DOMAIN detail_urls -> DetailOutcomes(Contents)] :
                          /\ collect_details(detail_urls, outcome, 1).collected_data
                                 = collected_data
                          /\ \A i \in DOMAIN detail_urls :
                                 outcome[i].kind # "ok" <=> detail_urls[i] \in failed }
              IN  \A outcome \in PossibleOutcomes(frame'[p].detail_urls,
                                                  frame'[p].collected_data,
                                                  frame'[p].failed) :
                      \A i \in DOMAIN outcome : outcome[i].kind # "ParsingError"]_vars

\* C23: a record has one of the three species values, one of the three sex
\* values and an age that is None or not negative: the constructor builds
\* the record with exactly the fields it was given when they are such, and
\* raises a validation error otherwise, and every record normalize()
\* returns is such. Records enter a collected set, the output and a loaded
\* snapshot through this constructor only.
C23_CanonicalFields ==
    LET Canonical(fields) ==
            /\ fields.species \in {SpeciesDog, SpeciesCat, SpeciesOther}
            /\ fields.sex \in {SexMale, SexFemale, SexUnknown}
            /\ fields.age_months = None \/ fields.age_months[1] >= 0
    IN  normalizer_call.ret # <<>> =>
            /\ normalizer_call.fn = "AnimalData" =>
                   normalizer_call.ret[1] =
                       IF Canonical(normalizer_call.arg)
                       THEN Returns(normalizer_call.arg)
                       ELSE Raises("ValidationError")
            /\ (normalizer_call.fn = "normalize" /\ ~normalizer_call.ret[1].raised) =>
                   Canonical(normalizer_call.ret[1].value)

\* The constructor was given "dog" for the species, or a negative age, and
\* raised
C23_Witness ==
    /\ normalizer_call.fn = "AnimalData"
    /\ normalizer_call.ret # <<>>
    /\ normalizer_call.arg.species = <<"d", "o", "g">> \/ normalizer_call.arg.age_months = <<-1>>
    /\ normalizer_call.ret[1].raised

\* C26: _normalize_species and _normalize_sex never raise and return one
\* of the three values of their field, whatever the text: empty, only
\* whitespace or unrecognized
C26_SpeciesSexTotal ==
    normalizer_call.ret # <<>> =>
        /\ normalizer_call.fn = "_normalize_species" =>
               /\ ~normalizer_call.ret[1].raised
               /\ normalizer_call.ret[1].value \in {SpeciesDog, SpeciesCat, SpeciesOther}
        /\ normalizer_call.fn = "_normalize_sex" =>
               /\ ~normalizer_call.ret[1].raised
               /\ normalizer_call.ret[1].value \in {SexMale, SexFemale, SexUnknown}

\* A species text that is only whitespace, or that no pattern is in, was
\* normalized to sonota
C26_Witness ==
    /\ normalizer_call.fn = "_normalize_species"
    /\ normalizer_call.arg \in {<<" ", " ">>, <<"x">>}
    /\ normalizer_call.ret = <<Returns(SpeciesOther)>>

\* C27: _normalize_phone is idempotent: called with a value it returned,
\* it returns the same value, also for a text without any digit
C27_PhoneIdempotent ==
    (normalizer_call.fn = "_normalize_phone" /\ normalizer_call.again # <<>>) =>
        normalizer_call.again = normalizer_call.ret

\* C28: _normalize_date round-trips: called with a date it returned it
\* returns the same date, and an ISO date that exists is returned unchanged
C28_DateRoundTrip ==
    LET IsIsoDate(text) ==
            /\ match(IsoPattern, text) # <<>>
            /\ IsDate(int(SubSeq(text, 1, 4)), int(SubSeq(text, 6, 7)),
                      int(SubSeq(text, 9, 10)))
    IN  normalizer_call.fn = "_normalize_date" =>
            /\ normalizer_call.again # <<>> => normalizer_call.again = normalizer_call.ret
            /\ (normalizer_call.ret # <<>> /\ IsIsoDate(normalizer_call.arg)) =>
                   normalizer_call.ret = <<Returns(normalizer_call.arg)>>

\* C29: both era forms of year N, month M, day D normalize to the date of
\* the year 2018 + N with a month and a day of two digits, so both forms
\* give the same result
C29_EraMapping ==
    LET \* the ISO date of day D of month M of the year N of the era, or
        \* ValueError when there is no such day
        EraDate(N, M, D) ==
            IF IsDate(2018 + N, M, D)
            THEN Returns(Decimal(2018 + N) \o <<"-">> \o ZeroFill(Decimal(M), 2)
                         \o <<"-">> \o ZeroFill(Decimal(D), 2))
            ELSE Raises("ValueError")
    IN  (normalizer_call.fn = "_normalize_date" /\ normalizer_call.ret # <<>>) =>
            \A N \in EraYears, M \in Months, D \in Days, fill \in BOOLEAN :
                normalizer_call.arg \in {ReiwaText(N, M, D, fill), ReiwaShortText(N, M, D, fill)}
                    => normalizer_call.ret[1] = EraDate(N, M, D)

\* C24: every run terminates: a call of run_collection that created the
\* marker returns in the end, the marker removed
C24_RunTerminates ==
    (pc[1] = "collect") ~> (pc[1] = "idle" /\ ~lockFile)

\* The marker is there and no call is between its creation and its release
Stale == lockFile /\ \A p \in DOMAIN pc : ~HoldsMarker(p)

\* C25: the marker is not crash-safe. A process killed between the creation
\* and the release of the marker leaves it behind; while it is there and
\* nobody removes it by hand, every call of run_collection returns 'Already
\* running' and fetches and writes nothing; and the marker is only ever
\* removed by hand or by a call that is past the marker check, which it
\* passes only when it finds no marker.
C25_StaleMarkerStays ==
    [][/\ (\E p \in DOMAIN pc : HoldsMarker(p) /\ pc'[p] = "crashed") => lockFile'
       /\ (Stale /\ vars' # vars) =>
              \/ ~lockFile' /\ pc' = pc
              \/ /\ Stale'
                 /\ UNCHANGED <<snapshotFile, outputFile>>
                 /\ \A p \in DOMAIN pc :
                        /\ calls'[p] = NoCalls
                        /\ frame'[p] = EmptyFrame
                        /\ pc[p] = "idle" => result'[p] = <<AlreadyRunning>>
       /\ (lockFile /\ ~lockFile') =>
              \/ pc' = pc
              \/ \E p \in DOMAIN pc : HoldsMarker(p) /\ pc'[p] = "idle"]_vars

\* A call has returned 'Already running' on the marker a killed process
\* left behind
C25_Witness ==
    /\ Stale
    /\ pc[1] = "idle"
    /\ result[1] = <<AlreadyRunning>>

\* C30: only the listing is retried. The step in which the listing
\* succeeds makes one listing attempt and passes every listed URL to
\* extract_animal_details once, whichever pages fail: each URL ends up once
\* among the collected records or once among the skipped pages, and none
\* was extracted before. After that step the call makes no listing attempt
\* and no extraction any more.
C30_RetryOnlyListing ==
    [][\A p \in DOMAIN pc :
          /\ (pc[p] = "collect" /\ pc'[p] = "diff") =>
                 LET f == frame'[p]
                     CountIn(seq, x) == Cardinality({i \in DOMAIN seq : seq[i] = x})
                 IN  /\ calls'[p].fetch_animal_list = calls[p].fetch_animal_list + 1
                     /\ calls[p].extract_animal_details = 0
                     /\ calls'[p].extract_animal_details = Len(f.detail_urls)
                     /\ \A i \in DOMAIN f.detail_urls :
                            CountIn(f.detail_urls, f.detail_urls[i]) = 1
                            /\ CountIn(UrlsOf(f.collected_data), f.detail_urls[i])
                                  + CountIn(f.skipped, f.detail_urls[i]) = 1
          /\ (pc[p] \in {"diff", "output", "output_dump", "save", "save_dump"}
                 /\ calls'[p] # NoCalls) =>
                 /\ calls'[p].fetch_animal_list = calls[p].fetch_animal_list
                 /\ calls'[p].extract_animal_details = calls[p].extract_animal_details]_vars

\* After one listing attempt that raised NetworkError the listing returned
\* two URLs; one of the two pages failed, and the call is at the diff with
\* two listing attempts and two extractions
C30_Witness ==
    \E p \in DOMAIN pc :
        /\ pc[p] = "diff"
        /\ Len(frame[p].detail_urls) = 2
        /\ Cardinality(frame[p].failed) = 1
        /\ calls[p].fetch_animal_list = 2
        /\ calls[p].extract_animal_details = 2

\* ----------------------------------------------------------------- backoff
\* C31: the i-th listing attempt that failed and is followed by another
\* attempt is followed by one time.sleep(2 ** i), 2 s then 4 s, each delay
\* the double of the one before; the attempt that ends the call, the third
\* failure included, is followed by none; and every step of the loop makes
\* one attempt, so no attempt runs while the call sleeps.
C31_BackoffSchedule ==
    [][\A p \in DOMAIN pc :
          (pc[p] = "collect" /\ frame'[p] # frame[p]) =>
              LET i == Len(frame[p].listing_raised) + 1
                  sleeps == frame[p].sleeps
              IN  /\ Len(sleeps) = i - 1
                  /\ \A k \in DOMAIN sleeps : sleeps[k] = 2 ^ k
                  /\ \A k \in DOMAIN sleeps : k > 1 => sleeps[k] = 2 * sleeps[k - 1]
                  /\ pc'[p] = "collect" =>
                         /\ i < max_retries
                         /\ frame'[p].sleeps = Append(sleeps, 2 ^ i)
                         /\ calls'[p].fetch_animal_list = calls[p].fetch_animal_list + 1
                  /\ pc'[p] = "release" =>
                         /\ frame'[p].sleeps = sleeps
                         /\ calls'[p].fetch_animal_list = calls[p].fetch_animal_list + 1
                  /\ (pc'[p] = "release" /\ AllNetworkErrors(frame'[p].listing_raised)) =>
                         i = max_retries]_vars

\* Three listing attempts failed on the network: the call slept 2 s and
\* 4 s and is over
C31_Witness ==
    /\ pc[1] = "release"
    /\ Len(frame[1].listing_raised) = max_retries
    /\ AllNetworkErrors(frame[1].listing_raised)
    /\ frame[1].sleeps = <<2, 4>>

C33_SnapshotReadAtStart ==
    \A p \in DOMAIN pc :
        /\ calls[p].detect_diff <= 1
        /\ calls[p].fetch_animal_list > 0 => calls[p].detect_diff = 1
        /\ (pc[p] = "release" /\ result[p] = <<FailureResult(<<JSONDecodeMessage>>)>>) =>
               /\ calls[p].fetch_animal_list = 0
               /\ calls[p].extract_animal_details = 0

\* ------------------------------------------------------- female before male
\* C34: _normalize_sex tries the female tokens first. A text in which a
\* female token occurs, in any case of its letters, gives onnanoko, also
\* when a male token occurs in it as "male" does in "female"; otokonoko is
\* returned exactly when a male token occurs and no female token does; any
\* other text gives fumei.
C34_FemaleBeforeMale ==
    (normalizer_call.fn = "_normalize_sex" /\ normalizer_call.ret # <<>>) =>
        LET text == lower(normalizer_call.arg)
            Occurs(token) ==
                \E i \in DOMAIN text :
                    /\ i + Len(token) - 1 <= Len(text)
                    /\ \A k \in DOMAIN token : text[i + k - 1] = token[k]
            female == \E k \in DOMAIN SEX_FEMALE_PATTERNS : Occurs(SEX_FEMALE_PATTERNS[k])
            male == \E k \in DOMAIN SEX_MALE_PATTERNS : Occurs(SEX_MALE_PATTERNS[k])
        IN  normalizer_call.ret =
                <<Returns(IF female THEN SexFemale
                          ELSE IF male THEN SexMale ELSE SexUnknown)>>

\* "FEmale" and a text with both signs were normalized to onnanoko
C34_Witness ==
    /\ normalizer_call.fn = "_normalize_sex"
    /\ normalizer_call.arg \in { <<"f", "e", "M", "A", "L", "E">>,
                                 <<"U+2642", "U+2640">> }
    /\ normalizer_call.ret = <<Returns(SexFemale)>>

\* ------------------------------------------------------------ skipped pages
\* C35: a summary with success=true has no errors, also when detail pages
\* were skipped: a call that skipped pages and met no failure of its own
\* returns the success summary of what it collected, with an empty errors
\* list, and main() exits with 0 on it.
C35_SuccessHasNoErrors ==
    \A p \in DOMAIN pc :
        /\ (result[p] # <<>> /\ IsResult(result[p][1]) /\ result[p][1].success) =>
               /\ result[p][1].errors = <<>>
               /\ exit_status[p] # <<>> => exit_status[p] = <<0>>
        /\ (pc[p] = "release" /\ frame[p].skipped # <<>> /\ frame[p].errors = <<>>) =>
               result[p] = <<CollectionResult(TRUE,
                                 Len(frame[p].detail_urls) - Len(frame[p].skipped),
                                 Len(frame[p].diff_result.new),
                                 Len(frame[p].diff_result.updated),
                                 Len(frame[p].diff_result.deleted_candidates),
                                 <<>>)>>

\* The one page of the listing was skipped: success without errors, nothing
\* collected, exit status 0
C35_Witness ==
    /\ exit_status[1] = <<0>>
    /\ result[1][1].success
    /\ result[1][1].total_collected = 0
    /\ result[1][1].errors = <<>>

\* ------------------------------------------------------ consecutive calls
\* C36: the new records are notified before the output and the snapshot
\* are written: the step that notifies is the diff step, with no write
\* made yet. A call whose output or snapshot write fails after that
\* returns success=false with the notification sent. Whether a call
\* notifies depends on its records and the snapshot only: the records
\* whose URL the snapshot lacks are new and are notified, whatever former
\* calls notified; and a call that failed at the output or at the opening
\* of the snapshot leaves the snapshot as it found it, so the next call
\* with the same records notifies them again.
C36_NotifiedAgainAfterFailedWrite ==
    [][\A p \in DOMAIN pc :
          /\ calls'[p].notify_new_animals > calls[p].notify_new_animals =>
                 /\ pc[p] = "diff"
                 /\ calls'[p].notify_new_animals = 1
                 /\ calls'[p].write_output = 0
                 /\ calls'[p].save_snapshot = 0
                 /\ UNCHANGED <<outputFile, snapshotFile>>
          /\ (pc[p] = "diff" /\ pc'[p] = "output") =>
                 LET current == frame[p].collected_data
                     known == Range(UrlsOf(load_snapshot(snapAtStart[p]).data))
                     IsNew(animal) == str(animal.source_url) \notin known
                 IN  /\ frame'[p].diff_result.new = SelectSeq(current, IsNew)
                     /\ calls'[p].notify_new_animals =
                            IF \E i \in DOMAIN current : IsNew(current[i]) THEN 1 ELSE 0
          /\ (pc[p] \in {"output", "output_dump", "save", "save_dump"}
                 /\ pc'[p] = "release" /\ frame'[p].errors # <<>>) =>
                 /\ ~result'[p][1].success
                 /\ calls'[p].notify_new_animals =
                        IF frame[p].diff_result.new # <<>> THEN 1 ELSE 0
                 /\ pc[p] # "save_dump" => snapshotFile' = snapAtStart[p]]_vars

\* A former call went past its diff and failed or was killed while it
\* wrote the output, which it left cut, with no snapshot saved; this call has notified its
\* new records and has written nothing yet
C36_Witness ==
    /\ pc[1] = "output"
    /\ calls[1].notify_new_animals = 1
    /\ calls[1].write_output = 0
    /\ frame[1].diff_result.new = frame[1].collected_data
    /\ outputFile = TruncatedFile
    /\ snapshotFile = AbsentFile

\* C37: the snapshot is only replaced by a call that succeeds, and then it
\* holds exactly the records that call collected; so when the next call
\* that reaches the diff collects the same records, in any order, its new,
\* updated and delete-candidate lists are empty and it sends no
\* new-records notification.
C37_SameRecordsNoDiff ==
    [][/\ (snapshotFile' # snapshotFile /\ snapshotFile'.kind = "valid") =>
              \E p \in DOMAIN pc :
                  /\ pc[p] = "save_dump"
                  /\ result'[p][1].success
                  /\ load_snapshot(snapshotFile') =
                         [raised |-> FALSE, data |-> frame[p].collected_data]
       /\ \A p \in DOMAIN pc :
              (pc[p] = "diff" /\ pc'[p] = "output") =>
                  LET previous == load_snapshot(snapshotFile).data
                      current == frame[p].collected_data
                  IN  (/\ snapshotFile.kind = "valid"
                       /\ Len(previous) = Len(current)
                       /\ Range(previous) = Range(current)) =>
                          /\ frame'[p].diff_result = DiffResult(<<>>, <<>>, <<>>)
                          /\ calls'[p].notify_new_animals = 0]_vars

\* The call collected the two records of the snapshot in the other order:
\* nothing to report, no notification
C37_Witness ==
    /\ pc[1] = "output"
    /\ snapshotFile.kind = "valid"
    /\ Len(frame[1].collected_data) = 2
    /\ load_snapshot(snapshotFile).data =
           <<frame[1].collected_data[2], frame[1].collected_data[1]>>
    /\ frame[1].diff_result = DiffResult(<<>>, <<>>, <<>>)
    /\ calls[1].notify_new_animals = 0

\* C38: a call reports as delete-candidates exactly the identifiers the
\* snapshot holds and the collection lacks, and a call that succeeds
\* leaves a snapshot holding the collected identifiers only, so that no
\* reported identifier stays in it; an identifier the snapshot lacks is
\* classified new when it is collected, and only then can it be reported
\* gone once more.
C38_DeletedReportedOnce ==
    [][\A p \in DOMAIN pc :
          LET collected == UrlsOf(frame[p].collected_data)
          IN  /\ (pc[p] = "diff" /\ pc'[p] = "output") =>
                     LET held == UrlsOf(load_snapshot(snapshotFile).data)
                         Gone(u) == u \notin Range(collected)
                         d == frame'[p].diff_result
                     IN  /\ d.deleted_candidates = SelectSeq(held, Gone)
                         /\ \A u \in Range(collected) \ Range(held) :
                                u \in Range(UrlsOf(d.new))
                         /\ \A u \in Range(collected) \cap Range(held) :
                                u \notin Range(UrlsOf(d.new))
              /\ (pc[p] = "save_dump" /\ pc'[p] = "release" /\ result'[p][1].success) =>
                     LET left == UrlsOf(load_snapshot(snapshotFile').data)
                     IN  /\ snapshotFile'.kind = "valid"
                         /\ left = collected
                         /\ \A u \in Range(frame[p].diff_result.deleted_candidates) :
                                u \notin Range(left)]_vars

\* A call that reported an identifier as gone has succeeded: the snapshot
\* it left does not hold the identifier any more
C38_Witness ==
    /\ pc[1] = "release"
    /\ result[1] # <<>>
    /\ result[1][1].success
    /\ result[1][1].deleted_count = 1
    /\ result[1][1].total_collected = 1
    /\ snapshotFile.kind = "valid"
    /\ Len(snapshotFile.animals) = 1
    /\ snapAtStart[1].kind = "valid"
    /\ \E i \in DOMAIN snapAtStart[1].animals :
           \A j \in DOMAIN snapshotFile.animals :
               snapAtStart[1].animals[i].source_url # snapshotFile.animals[j].source_url

====
